---- MODULE Spec2Model ----
(***************************************************************************)
(* map-json: a mapping template is evaluated against a source tree.        *)
(* JavaScript values are tagged records; a string is a TLA+ string, so     *)
(* key-paths are split on "." and function names are parsed for their      *)
(* prefix the way the code does it.                                        *)
(***************************************************************************)
EXTENDS Integers, Sequences, FiniteSets, TLC

VARIABLES sourceObject, mappingObject, transformSource, preProcess,
          pc, output, calls, warnings, error

vars == <<sourceObject, mappingObject, transformSource, preProcess,
          pc, output, calls, warnings, error>>

(***************************************************************************)
(* JavaScript values                                                       *)
(***************************************************************************)
\* a value is <<type, payload>>; an object is <<"object", values, keys>>
Undefined == <<"undefined">>
Null == <<"null">>
Bool(b) == <<"boolean", b>>
Num(n) == <<"number", n>>
Str(s) == <<"string", s>>
Arr(elems) == <<"array", elems>>
Obj(keys, vals) == <<"object", vals, keys>>
Fn(name) == <<"function", name>>

TypeOf(x) == x[1]
Val(x) == x[2]
Keys(x) == x[3]

isUndefined(x) == TypeOf(x) = "undefined"
isArray(x) == TypeOf(x) = "array"
isString(x) == TypeOf(x) = "string"
isBoolean(x) == TypeOf(x) = "boolean"
isFunction(x) == TypeOf(x) = "function"
\* lodash isObject: objects, arrays and functions, never null
isObject(x) == TypeOf(x) \in {"object", "array", "function"}
\* typeof x === "object" && x !== null
isIndexable(x) == TypeOf(x) \in {"object", "array"}

\* JavaScript truthiness, as used by `a || b` and `a && b`
Truthy(x) ==
  CASE TypeOf(x) \in {"undefined", "null"} -> FALSE
    [] TypeOf(x) = "boolean" -> Val(x)
    [] TypeOf(x) = "number" -> Val(x) # 0
    [] TypeOf(x) = "string" -> Val(x) # ""
    [] OTHER -> TRUE

OrElse(a, b) == IF Truthy(a) THEN a ELSE b

\* Object.keys(x): own keys of an object, index strings of an array
ObjectKeys(x) ==
  CASE TypeOf(x) = "object" -> Keys(x)
    [] TypeOf(x) = "array" -> [i \in 1..Len(Val(x)) |-> ToString(i - 1)]
    [] OTHER -> <<>>

\* x[key]
Prop(x, key) ==
  IF \E i \in 1..Len(ObjectKeys(x)) : ObjectKeys(x)[i] = key
  THEN Val(x)[CHOOSE i \in 1..Len(ObjectKeys(x)) : ObjectKeys(x)[i] = key]
  ELSE Undefined

\* [].concat(x): an array is spread, anything else becomes the one element
ConcatOne(x) == IF isArray(x) THEN Val(x) ELSE <<x>>

\* string.indexOf(ch) !== -1
Contains(s, ch) == \E i \in 1..Len(s) : SubSeq(s, i, i) = ch

\* string.split(".")
RECURSIVE SplitFrom(_, _, _)
SplitFrom(s, start, i) ==
  IF i > Len(s) THEN <<SubSeq(s, start, Len(s))>>
  ELSE IF SubSeq(s, i, i) = "."
       THEN <<SubSeq(s, start, i - 1)>> \o SplitFrom(s, i + 1, i + 1)
       ELSE SplitFrom(s, start, i + 1)

Split(s) == SplitFrom(s, 1, 1)

Range(seq) == {seq[i] : i \in 1..Len(seq)}

RECURSIVE Flatten(_)
Flatten(seqs) == IF seqs = <<>> THEN <<>> ELSE Head(seqs) \o Flatten(Tail(seqs))

(***************************************************************************)
(* Path Resolver                                                           *)
(***************************************************************************)
\* dotty.get(object, path): nested lookup, undefined when a level is missing
\* or is not indexable
RECURSIVE dotty_get(_, _)
dotty_get(object, path) ==
  IF path = <<>> \/ ~isIndexable(object) THEN Undefined
  ELSE IF Len(path) = 1 THEN Prop(object, Head(path))
  ELSE dotty_get(Prop(object, Head(path)), Tail(path))

\* a path segment against a key: "*" matches every key of the level
SegmentMatches(segment, key) == segment = "*" \/ segment = key

MatchingKeys(object, segment) ==
  SelectSeq(ObjectKeys(object), LAMBDA k : SegmentMatches(segment, k))

\* dotty.search(object, path): every value at the path, "*" expanded, in key
\* order; a branch that ends on a non-indexable value contributes undefined
RECURSIVE dotty_search(_, _)
RECURSIVE searchKeys(_, _, _)
searchKeys(object, keys, path) ==
  IF keys = <<>> THEN <<>>
  ELSE (IF Len(path) = 1 THEN <<Prop(object, Head(keys))>>
        ELSE dotty_search(Prop(object, Head(keys)), Tail(path)))
       \o searchKeys(object, Tail(keys), path)

dotty_search(object, path) ==
  IF path = <<>> \/ ~isIndexable(object) THEN <<Undefined>>
  ELSE searchKeys(object, MatchingKeys(object, Head(path)), path)

\* a variant that wraps a single result as well
singleOrAll_alwaysArray(result) ==
  IF Len(result) = 0 THEN Undefined ELSE Arr(result)

\* lines 108-111: no result, the single result itself, or all of them
singleOrAll(result) ==
  IF Len(result) = 0 THEN Undefined
  ELSE IF Len(result) = 1 THEN result[1]
  ELSE Arr(result)

\* a variant that tests the looked-up value for truth: dotty.get(...) || undefined
_resolveKeyPath_falsy(keyPath) ==
  IF Contains(keyPath, "*")
  THEN singleOrAll(SelectSeq(dotty_search(sourceObject, Split(keyPath)),
                             LAMBDA searchResult : searchResult # Undefined))
  ELSE OrElse(dotty_get(sourceObject, Split(keyPath)), Undefined)

_resolveKeyPath(keyPath) ==
  IF Contains(keyPath, "*")
  THEN singleOrAll(SelectSeq(dotty_search(sourceObject, Split(keyPath)),
                             LAMBDA searchResult : searchResult # Undefined))
  ELSE dotty_get(sourceObject, Split(keyPath))

\* a variant with _.some in place of _.every
undefinedIfEvery_some(sourceValues) ==
  IF \E i \in 1..Len(sourceValues) : isUndefined(sourceValues[i])
  THEN Undefined
  ELSE Arr(sourceValues)

\* line 97
undefinedIfEvery(sourceValues) ==
  IF \A i \in 1..Len(sourceValues) : isUndefined(sourceValues[i])
  THEN Undefined
  ELSE Arr(sourceValues)

RECURSIVE resolveEach(_)
resolveEach(keyPaths) ==
  IF keyPaths = <<>> THEN <<>>
  ELSE <<_resolveKeyPath(Val(Head(keyPaths)))>> \o resolveEach(Tail(keyPaths))

_resolveSource(sourceKeyPath) ==
  IF isArray(sourceKeyPath)
  THEN undefinedIfEvery(resolveEach(Val(sourceKeyPath)))
  ELSE _resolveKeyPath(Val(sourceKeyPath))

(***************************************************************************)
(* Function Invoker (TransformUtil)                                        *)
(***************************************************************************)
StartsWith(s, prefix) ==
  Len(s) >= Len(prefix) /\ SubSeq(s, 1, Len(prefix)) = prefix

\* string.replace(ch, ""): only the first occurrence is removed
ReplaceFirst(s, ch) ==
  IF Contains(s, ch)
  THEN LET i == CHOOSE j \in 1..Len(s) :
                  /\ SubSeq(s, j, j) = ch
                  /\ \A h \in 1..(j - 1) : SubSeq(s, h, h) # ch
       IN SubSeq(s, 1, i - 1) \o SubSeq(s, i + 1, Len(s))
  ELSE s

\* a variant that knows one order of the prefixes: /^@/ and /^!/
_checkFunctionPrefix_oneOrder(functionName) ==
  LET isAt == StartsWith(functionName, "@")
      isInversed == StartsWith(functionName, "!")
      withoutAt == IF isAt THEN ReplaceFirst(functionName, "@") ELSE functionName
  IN [isAt |-> isAt,
      isInversed |-> isInversed,
      functionNameWithoutPrefix |->
        IF isInversed THEN ReplaceFirst(withoutAt, "!") ELSE withoutAt]

_checkFunctionPrefix(functionName) ==
  LET isAt == StartsWith(functionName, "@") \/ StartsWith(functionName, "!@")
      isInversed == StartsWith(functionName, "!") \/ StartsWith(functionName, "@!")
      withoutAt == IF isAt THEN ReplaceFirst(functionName, "@") ELSE functionName
  IN [isAt |-> isAt,
      isInversed |-> isInversed,
      functionNameWithoutPrefix |->
        IF isInversed THEN ReplaceFirst(withoutAt, "!") ELSE withoutAt]

\* the i-th actual argument of a call, undefined when it was not passed
Arg(args, i) == IF i <= Len(args) THEN args[i] ELSE Undefined

Returns(value) == [thrown |-> FALSE, v |-> value]
Throws == [thrown |-> TRUE, v |-> Undefined]

\* The caller's functions: what each function of the table does when it is
\* applied to args
Invoke(name, args) ==
  CASE name = "returnTrue" -> Returns(Bool(TRUE))
    [] name = "returnFalse" -> Returns(Bool(FALSE))
    [] name = "returnOne" -> Returns(Num(1))
    [] name = "returnUndefined" -> Returns(Undefined)
    [] name = "testCondition" -> Returns(Arg(args, 2))
    [] name = "wrap" -> Returns(Arr(<<Arg(args, 1)>>))
    [] name = "isArray" -> Returns(Bool(isArray(Arg(args, 1))))
    [] name = "increment" ->
         IF TypeOf(Arg(args, 1)) = "number" THEN Returns(Num(Val(Arg(args, 1)) + 1)) ELSE Throws
    [] name = "double" ->
         IF TypeOf(Arg(args, 1)) = "number" THEN Returns(Num(Val(Arg(args, 1)) * 2)) ELSE Throws
    [] name = "fail" -> Throws
    [] OTHER -> Throws

\* Object.keys(functionObject)[0], as the property key it is used as
FirstKey(functionObject) ==
  IF Len(ObjectKeys(functionObject)) = 0 THEN "undefined"
  ELSE ObjectKeys(functionObject)[1]

\* a variant that negates every result: prefix.isInversed ? !value : value
inverseResult_always(prefix, args, transformedValue) ==
  [thrown |-> transformedValue.thrown,
   v |-> IF ~transformedValue.thrown /\ prefix.isInversed
         THEN Bool(~Truthy(transformedValue.v))
         ELSE transformedValue.v,
   call |-> <<[fn |-> prefix.functionNameWithoutPrefix, args |-> args]>>]

\* lines 107-109: the result of the function that was called with args
inverseResult(prefix, args, transformedValue) ==
  [thrown |-> transformedValue.thrown,
   v |-> IF ~transformedValue.thrown /\ prefix.isInversed /\ isBoolean(transformedValue.v)
         THEN Bool(~Val(transformedValue.v))
         ELSE transformedValue.v,
   call |-> <<[fn |-> prefix.functionNameWithoutPrefix, args |-> args]>>]

\* lines 105-106: a name that is no function of the table raises a TypeError
applyFunction(prefix, function, args) ==
  IF ~isFunction(function)
  THEN [thrown |-> TRUE, v |-> Undefined, call |-> <<>>]
  ELSE inverseResult(prefix, args, Invoke(Val(function), args))

\* a variant that passes the input value whatever the prefix
lookupFunction_keepValue(prefix, allParameters) ==
  applyFunction(prefix,
                Prop(transformSource, prefix.functionNameWithoutPrefix),
                allParameters)

lookupFunction(prefix, allParameters) ==
  applyFunction(prefix,
                Prop(transformSource, prefix.functionNameWithoutPrefix),
                IF prefix.isAt THEN Tail(allParameters) ELSE allParameters)

\* [thrown, v, call]: call is the invocation that took place, if one did
_runFunction(functionObject, inputValue) ==
  lookupFunction(_checkFunctionPrefix(FirstKey(functionObject)),
                 <<inputValue>>
                   \o ConcatOne(Prop(functionObject, FirstKey(functionObject))))

\* a log entry: which phase invoked which function with which arguments
Logged(via, call) ==
  [i \in 1..Len(call) |-> [via |-> via, fn |-> call[i].fn, args |-> call[i].args]]

\* a log entry for a console.warn of checkCondition or of transformValue
Warning(from) == [via |-> "console.warn", fn |-> from, args |-> <<>>]
WarningIf(thrown, from) == IF thrown THEN <<Warning(from)>> ELSE <<>>

\* lines 21-26: one condition call; a throw is caught, reported with
\* console.warn and counts as false
conditionResult(ran) ==
  [v |-> IF ran.thrown THEN Bool(FALSE) ELSE ran.v,
   log |-> Logged("Condition", ran.call) \o WarningIf(ran.thrown, "Condition")]

\* a variant that stops at the first call that does not yield true
RECURSIVE conditionResults_shortCircuit(_, _)
conditionResults_shortCircuit(sources, list) ==
  IF list = <<>> THEN <<>>
  ELSE <<conditionResult(_runFunction(Head(list), sources))>>
       \o IF conditionResult(_runFunction(Head(list), sources)).v = Bool(TRUE)
          THEN conditionResults_shortCircuit(sources, Tail(list))
          ELSE <<>>

\* the map() of checkCondition: every call is made, in order
RECURSIVE conditionResults(_, _)
conditionResults(sources, list) ==
  IF list = <<>> THEN <<>>
  ELSE <<conditionResult(_runFunction(Head(list), sources))>>
       \o conditionResults(sources, Tail(list))

\* a variant that tests the results for truth instead of === true
everyTrue_truthy(results) ==
  [v |-> \A i \in 1..Len(results) : Truthy(results[i].v),
   log |-> Flatten([i \in 1..Len(results) |-> results[i].log]),
   err |-> ""]

\* line 27
everyTrue(results) ==
  [v |-> \A i \in 1..Len(results) : results[i].v = Bool(TRUE),
   log |-> Flatten([i \in 1..Len(results) |-> results[i].log]),
   err |-> ""]

\* [v, log, err]: v is a TLA+ boolean, log the invocations in the order made
checkCondition(sources, conditionFunctionObjects) ==
  everyTrue(conditionResults(sources, ConcatOne(conditionFunctionObjects)))

PrependLog(log, result) == [result EXCEPT !.log = log \o @]

\* the forEach of transformValue: each call gets the result of the one before
\* it; a throw ends the loop
RECURSIVE runChain(_, _)
RECURSIVE chainStep(_, _)
\* a variant that goes on with the calls after the one that threw
chainStep_goOn(rest, step) ==
  IF step.thrown
  THEN [PrependLog(Logged("Transform", step.call), runChain(rest, Undefined))
          EXCEPT !.thrown = TRUE, !.v = Undefined]
  ELSE PrependLog(Logged("Transform", step.call), runChain(rest, step.v))

chainStep(rest, step) ==
  IF step.thrown
  THEN [thrown |-> TRUE, v |-> Undefined, log |-> Logged("Transform", step.call)]
  ELSE PrependLog(Logged("Transform", step.call), runChain(rest, step.v))

\* a variant that hands every call the value the chain started with
RECURSIVE runChain_unthreaded(_, _)
runChain_unthreaded(list, transformedValue) ==
  IF list = <<>> THEN [thrown |-> FALSE, v |-> transformedValue, log |-> <<>>]
  ELSE LET step == _runFunction(Head(list), transformedValue)
           rest == runChain_unthreaded(Tail(list), transformedValue)
       IN IF step.thrown
          THEN [thrown |-> TRUE, v |-> Undefined, log |-> Logged("Transform", step.call)]
          ELSE [thrown |-> rest.thrown,
                v |-> IF Len(list) = 1 \/ rest.thrown THEN step.v ELSE rest.v,
                log |-> Logged("Transform", step.call) \o rest.log]

\* a variant whose try/catch is inside the loop: a call that fails ends the
\* loop with the value reached so far
RECURSIVE runChain_partial(_, _)
runChain_partial(list, transformedValue) ==
  IF list = <<>> THEN [thrown |-> FALSE, v |-> transformedValue, log |-> <<>>]
  ELSE LET step == _runFunction(Head(list), transformedValue)
       IN IF step.thrown
          THEN [thrown |-> FALSE, v |-> transformedValue,
                log |-> Logged("Transform", step.call)]
          ELSE PrependLog(Logged("Transform", step.call),
                          runChain_partial(Tail(list), step.v))

runChain(list, transformedValue) ==
  IF list = <<>> THEN [thrown |-> FALSE, v |-> transformedValue, log |-> <<>>]
  ELSE chainStep(Tail(list), _runFunction(Head(list), transformedValue))

\* a variant without the try/catch: the error of a call leaves transformValue
catchChain_rethrow(chain) ==
  [v |-> IF chain.thrown THEN Undefined ELSE chain.v, log |-> chain.log,
   err |-> IF chain.thrown THEN "transform function failed" ELSE ""]

\* lines 84-88: on any error console.warn is called and undefined is returned
catchChain(chain) ==
  [v |-> IF chain.thrown THEN Undefined ELSE chain.v,
   log |-> chain.log \o WarningIf(chain.thrown, "Transform"),
   err |-> ""]

\* [v, log, err]
transformValue(value, transformFunctionObjects) ==
  catchChain(runChain(ConcatOne(transformFunctionObjects), value))

\* line 65-66: the transform of a group whose condition is met
groupResult(functionObject, conditionMet) ==
  [v |-> IF conditionMet.v THEN Prop(functionObject, "_transform") ELSE Undefined,
   log |-> conditionMet.log]

\* line 64: the condition of every group is checked, in order
RECURSIVE groupResults(_, _)
groupResults(sources, conditionalTransforms) ==
  IF conditionalTransforms = <<>> THEN <<>>
  ELSE <<groupResult(Head(conditionalTransforms),
                     checkCondition(sources,
                                    Prop(Head(conditionalTransforms), "_condition")))>>
       \o groupResults(sources, Tail(conditionalTransforms))

\* line 67: the first result that is not undefined
firstDefined(results) ==
  [v |-> IF \E i \in 1..Len(results) : ~isUndefined(results[i].v)
         THEN results[CHOOSE i \in 1..Len(results) :
                        /\ ~isUndefined(results[i].v)
                        /\ \A h \in 1..(i - 1) : isUndefined(results[h].v)].v
         ELSE Undefined,
   log |-> Flatten([i \in 1..Len(results) |-> results[i].log]),
   err |-> ""]

\* lines 50-67
selectTransforms(sources, transformFunctionObjects, conditionalTransforms, normalTransforms) ==
  IF Len(conditionalTransforms) > 0 /\ Len(normalTransforms) > 0
  THEN [v |-> Undefined, log |-> <<>>,
        err |-> "Mixing of conditional transforms and normal transforms not allowed"]
  ELSE IF Len(conditionalTransforms) = 0
       THEN [v |-> Arr(transformFunctionObjects), log |-> <<>>, err |-> ""]
       ELSE firstDefined(groupResults(sources, conditionalTransforms))

isConditional(functionObject) == ~isUndefined(Prop(functionObject, "_condition"))

\* [v, log, err]: the chain to run; for conditional transforms the first match
resolveTransformConditions(sources, transformFunctionObject) ==
  selectTransforms(sources,
                   ConcatOne(OrElse(transformFunctionObject, Arr(<<>>))),
                   SelectSeq(ConcatOne(OrElse(transformFunctionObject, Arr(<<>>))),
                             isConditional),
                   IF isArray(transformFunctionObject)
                   THEN SelectSeq(Val(transformFunctionObject),
                                  LAMBDA functionObject : ~isConditional(functionObject))
                   ELSE <<>>)

(***************************************************************************)
(* Mapping Evaluator (JsonMapper)                                          *)
(***************************************************************************)
\* The caller's preprocessor: what it returns for a value, or that it raised
InvokePreProcess(name, value) ==
  CASE name = "nullToUndefined" -> Returns(IF value = Null THEN Undefined ELSE value)
    [] name = "undefinedToZero" -> Returns(IF isUndefined(value) THEN Num(0) ELSE value)
    [] name = "wrap" -> Returns(Arr(<<value>>))
    [] OTHER -> Throws

\* a variant with a try/catch around the call: a throw yields undefined
callPreProcess_caught(value, returned) ==
  [v |-> returned.v,
   log |-> <<[via |-> "preProcess", fn |-> Val(preProcess), args |-> <<value>>]>>,
   err |-> ""]

\* this.preProcess(value): [v, log, err]
callPreProcess(value, returned) ==
  [v |-> returned.v,
   log |-> <<[via |-> "preProcess", fn |-> Val(preProcess), args |-> <<value>>]>>,
   err |-> IF returned.thrown THEN "preProcess failed" ELSE ""]

\* line 72: the preprocessor on every element, in order; a raise ends the loop
RECURSIVE preProcessEach(_)
RECURSIVE preProcessNext(_, _)
preProcessNext(rest, one) ==
  IF one.err # "" THEN [v |-> <<>>, log |-> one.log, err |-> one.err]
  ELSE [PrependLog(one.log, preProcessEach(rest)) EXCEPT !.v = <<one.v>> \o @]

preProcessEach(values) ==
  IF values = <<>> THEN [v |-> <<>>, log |-> <<>>, err |-> ""]
  ELSE preProcessNext(Tail(values),
                      callPreProcess(Head(values),
                                     InvokePreProcess(Val(preProcess), Head(values))))

AsArray(each) == [each EXCEPT !.v = Arr(@)]

\* a variant that looks at the resolved value: _.isArray(resolvedSourceValues)
preProcessSources_byValue(sourcesValues, resolvedSourceValues) ==
  IF ~isFunction(preProcess)
  THEN [v |-> resolvedSourceValues, log |-> <<>>, err |-> ""]
  ELSE IF isArray(resolvedSourceValues)
       THEN AsArray(preProcessEach(Val(resolvedSourceValues)))
       ELSE callPreProcess(resolvedSourceValues,
                           InvokePreProcess(Val(preProcess), resolvedSourceValues))

\* lines 68-76: [v, log, err]
preProcessSources(sourcesValues, resolvedSourceValues) ==
  IF ~isFunction(preProcess)
  THEN [v |-> resolvedSourceValues, log |-> <<>>, err |-> ""]
  ELSE IF isArray(sourcesValues)
       THEN IF ~isArray(resolvedSourceValues)
            THEN [v |-> Undefined, log |-> <<>>,
                  err |-> "TypeError: Cannot read property 'map' of undefined"]
            ELSE AsArray(preProcessEach(Val(resolvedSourceValues)))
       ELSE callPreProcess(resolvedSourceValues,
                           InvokePreProcess(Val(preProcess), resolvedSourceValues))

\* lines 82-83: transformValue on every element of the array, in order
RECURSIVE transformEachValue(_, _)
RECURSIVE transformNext(_, _, _)
\* a variant that ends the loop at the first element whose chain yields
\* undefined and leaves the elements after it as they are
transformNext_stop(rest, transformEachFunction, one) ==
  IF one.err # "" THEN [v |-> <<>>, log |-> one.log, err |-> one.err]
  ELSE IF isUndefined(one.v) THEN [v |-> <<one.v>> \o rest, log |-> one.log, err |-> ""]
  ELSE [PrependLog(one.log, transformEachValue(rest, transformEachFunction))
          EXCEPT !.v = <<one.v>> \o @]

transformNext(rest, transformEachFunction, one) ==
  IF one.err # "" THEN [v |-> <<>>, log |-> one.log, err |-> one.err]
  ELSE [PrependLog(one.log, transformEachValue(rest, transformEachFunction))
          EXCEPT !.v = <<one.v>> \o @]

\* the chain applied to the first element only
transformEachValue_firstOnly(values, transformEachFunction) ==
  IF values = <<>> THEN [v |-> <<>>, log |-> <<>>, err |-> ""]
  ELSE [transformValue(Head(values), transformEachFunction)
          EXCEPT !.v = <<@>> \o Tail(values)]

transformEachValue(values, transformEachFunction) ==
  IF values = <<>> THEN [v |-> <<>>, log |-> <<>>, err |-> ""]
  ELSE transformNext(Tail(values), transformEachFunction,
                     transformValue(Head(values), transformEachFunction))

\* a variant of line 89 that tests the value for truth: mappedValue || defaultValue
orDefault_falsy(valueMapping, mappedValue) ==
  IF mappedValue.err # "" THEN [mappedValue EXCEPT !.v = Undefined]
  ELSE IF ~Truthy(mappedValue.v)
       THEN [mappedValue EXCEPT !.v = Prop(valueMapping, "_default")]
       ELSE mappedValue

\* a variant of line 89 that takes null for undefined: mappedValue == null
orDefault_nullish(valueMapping, mappedValue) ==
  IF mappedValue.err # "" THEN [mappedValue EXCEPT !.v = Undefined]
  ELSE IF isUndefined(mappedValue.v) \/ mappedValue.v = Null
       THEN [mappedValue EXCEPT !.v = Prop(valueMapping, "_default")]
       ELSE mappedValue

\* line 89
orDefault(valueMapping, mappedValue) ==
  IF mappedValue.err # "" THEN [mappedValue EXCEPT !.v = Undefined]
  ELSE IF isUndefined(mappedValue.v)
       THEN [mappedValue EXCEPT !.v = Prop(valueMapping, "_default")]
       ELSE mappedValue

\* lines 81-89
afterTransform(valueMapping, mappedValue) ==
  IF mappedValue.err # "" THEN [mappedValue EXCEPT !.v = Undefined]
  ELSE IF Truthy(Prop(valueMapping, "_transformEach")) /\ isArray(mappedValue.v)
       THEN orDefault(valueMapping,
                      PrependLog(mappedValue.log,
                                 AsArray(transformEachValue(Val(mappedValue.v),
                                                       Prop(valueMapping, "_transformEach")))))
       ELSE orDefault(valueMapping, mappedValue)

\* a variant of line 78 without the test for undefined: if (transformFunctions)
afterPreProcess_always(valueMapping, transformFunctions, mappedValue) ==
  IF mappedValue.err # "" THEN [mappedValue EXCEPT !.v = Undefined]
  ELSE IF Truthy(transformFunctions)
       THEN afterTransform(valueMapping,
                           PrependLog(mappedValue.log,
                                      transformValue(mappedValue.v, transformFunctions)))
       ELSE afterTransform(valueMapping, mappedValue)

\* lines 77-89
afterPreProcess(valueMapping, transformFunctions, mappedValue) ==
  IF mappedValue.err # "" THEN [mappedValue EXCEPT !.v = Undefined]
  ELSE IF Truthy(transformFunctions) /\ ~isUndefined(mappedValue.v)
       THEN afterTransform(valueMapping,
                           PrependLog(mappedValue.log,
                                      transformValue(mappedValue.v, transformFunctions)))
       ELSE afterTransform(valueMapping, mappedValue)

\* lines 62-89
afterCondition(valueMapping, sourcesValues, resolvedSourceValues, condition) ==
  IF condition.err # "" THEN [condition EXCEPT !.v = Undefined]
  ELSE IF ~condition.v
       THEN [condition EXCEPT !.v = Prop(valueMapping, "_default")]
       ELSE afterPreProcess(valueMapping,
                            OrElse(Prop(valueMapping, "_transform"),
                                   Prop(valueMapping, "_transforms")),
                            PrependLog(condition.log,
                                       preProcessSources(sourcesValues,
                                                         resolvedSourceValues)))

\* lines 55-89
afterResolve(valueMapping, conditionFunctions, sourcesValues, resolvedSourceValues) ==
  afterCondition(valueMapping, sourcesValues, resolvedSourceValues,
                 IF Truthy(conditionFunctions)
                 THEN checkCondition(resolvedSourceValues, conditionFunctions)
                 ELSE [v |-> TRUE, log |-> <<>>, err |-> ""])

withSources(valueMapping, sourcesValues) ==
  afterResolve(valueMapping,
               OrElse(Prop(valueMapping, "_condition"), Prop(valueMapping, "_conditions")),
               sourcesValues,
               _resolveSource(sourcesValues))

\* [v, log, err]: the value the mapping node is replaced with
_mapValue(valueMapping) ==
  withSources(valueMapping,
              OrElse(Prop(valueMapping, "_source"), Prop(valueMapping, "_sources")))

\* lines 32-35: the value is an object with a string or an array as _source
hasSource(value, source) == isObject(value) /\ (isString(source) \/ isArray(source))

isMappingNode(value) ==
  hasSource(value, OrElse(Prop(value, "_source"), Prop(value, "_sources")))

\* the iterator of map(), lines 31-39
replaceWithMappedValue(value) ==
  IF isMappingNode(value) THEN _mapValue(value)
  ELSE [v |-> value, log |-> <<>>, err |-> ""]

\* [v, log, err]: the deepest values are replaced first; a raise ends the walk
RECURSIVE _traverseMap(_)
RECURSIVE traverseChildren(_)
RECURSIVE traverseNext(_, _)
traverseNext(rest, first) ==
  IF first.err # "" THEN [v |-> <<>>, log |-> first.log, err |-> first.err]
  ELSE [PrependLog(first.log, traverseChildren(rest)) EXCEPT !.v = <<first.v>> \o @]

traverseChildren(children) ==
  IF children = <<>> THEN [v |-> <<>>, log |-> <<>>, err |-> ""]
  ELSE traverseNext(Tail(children), _traverseMap(Head(children)))

\* the children of an object collected in an array
iterateOver_asArray(value, children) ==
  IF children.err # "" THEN [children EXCEPT !.v = Undefined]
  ELSE PrependLog(children.log, replaceWithMappedValue(Arr(children.v)))

\* lines 47 and 49: the iterator on the value with its children replaced
iterateOver(value, children) ==
  IF children.err # "" THEN [children EXCEPT !.v = Undefined]
  ELSE PrependLog(children.log,
                  replaceWithMappedValue(IF isArray(value) THEN Arr(children.v)
                                         ELSE Obj(Keys(value), children.v)))

_traverseMap(value) ==
  IF isIndexable(value) THEN iterateOver(value, traverseChildren(Val(value)))
  ELSE replaceWithMappedValue(value)

map == _traverseMap(mappingObject)

(***************************************************************************)
(* Mapping Evaluator with conditional transforms and the two-pass walk     *)
(***************************************************************************)
\* lines 81-89
afterPreProcessTwoPass(valueMapping, transformFunctions, mappedValue) ==
  IF mappedValue.err # "" THEN [mappedValue EXCEPT !.v = Undefined]
  ELSE IF Truthy(transformFunctions) /\ ~isUndefined(mappedValue.v)
       THEN orDefault(valueMapping,
                      PrependLog(mappedValue.log,
                                 transformValue(mappedValue.v, transformFunctions)))
       ELSE orDefault(valueMapping, mappedValue)

\* lines 72-80: [v, log, err]
preProcessValues(sourceValues) ==
  IF ~isFunction(preProcess)
  THEN [v |-> sourceValues, log |-> <<>>, err |-> ""]
  ELSE IF isArray(sourceValues)
       THEN AsArray(preProcessEach(Val(sourceValues)))
       ELSE callPreProcess(sourceValues, InvokePreProcess(Val(preProcess), sourceValues))

\* lines 66-89
afterConditionTwoPass(valueMapping, sourceValues, transformFunctions, condition) ==
  IF condition.err # "" THEN [condition EXCEPT !.v = Undefined]
  ELSE IF ~condition.v
       THEN [condition EXCEPT !.v = Prop(valueMapping, "_default")]
       ELSE afterPreProcessTwoPass(valueMapping, transformFunctions,
                                   PrependLog(condition.log,
                                              preProcessValues(sourceValues)))

\* lines 63-89
afterSelectTwoPass(valueMapping, conditionFunctions, sourceValues, transformFunctions) ==
  IF transformFunctions.err # "" THEN [transformFunctions EXCEPT !.v = Undefined]
  ELSE PrependLog(transformFunctions.log,
                  afterConditionTwoPass(valueMapping, sourceValues, transformFunctions.v,
                                        IF Truthy(conditionFunctions)
                                        THEN checkCondition(sourceValues, conditionFunctions)
                                        ELSE [v |-> TRUE, log |-> <<>>, err |-> ""]))

\* a variant that selects the transform by the preprocessed value
afterResolveTwoPass_preProcessed(valueMapping, sourceValues) ==
  afterSelectTwoPass(valueMapping,
                     OrElse(Prop(valueMapping, "_condition"),
                            Prop(valueMapping, "_conditions")),
                     sourceValues,
                     resolveTransformConditions(preProcessValues(sourceValues).v,
                                                OrElse(Prop(valueMapping, "_transform"),
                                                       Prop(valueMapping, "_transforms"))))

afterResolveTwoPass(valueMapping, sourceValues) ==
  afterSelectTwoPass(valueMapping,
                     OrElse(Prop(valueMapping, "_condition"),
                            Prop(valueMapping, "_conditions")),
                     sourceValues,
                     resolveTransformConditions(sourceValues,
                                                OrElse(Prop(valueMapping, "_transform"),
                                                       Prop(valueMapping, "_transforms"))))

\* [v, log, err]: the value the mapping node is replaced with
_mapValueTwoPass(valueMapping) ==
  afterResolveTwoPass(valueMapping,
                      _resolveSource(OrElse(Prop(valueMapping, "_source"),
                                            Prop(valueMapping, "_sources"))))

keysToResolve == {"_condition", "_conditions", "_transform", "_transforms", "_default"}

\* lines 34-41 and 50-52: update the node when it is a mapping node; on the
\* first pass only below one of the keysToResolve
visit(value, path, firstPass) ==
  IF (~firstPass \/ path \cap keysToResolve # {}) /\ isMappingNode(value)
  THEN _mapValueTwoPass(value)
  ELSE [v |-> value, log |-> <<>>, err |-> ""]

\* traverse.map: the callback on a node, then on the children of the (updated)
\* node, in key order; path is the set of keys above the node
RECURSIVE walk(_, _, _)
RECURSIVE walkChildren(_, _, _, _)
RECURSIVE walkNext(_, _, _, _, _)
walkNext(node, restKeys, path, firstPass, first) ==
  IF first.err # "" THEN [v |-> <<>>, log |-> first.log, err |-> first.err]
  ELSE [PrependLog(first.log, walkChildren(node, restKeys, path, firstPass))
          EXCEPT !.v = <<first.v>> \o @]

walkChildren(node, keys, path, firstPass) ==
  IF keys = <<>> THEN [v |-> <<>>, log |-> <<>>, err |-> ""]
  ELSE walkNext(node, Tail(keys), path, firstPass,
                walk(Prop(node, Head(keys)), path \cup {Head(keys)}, firstPass))

rebuild(node, children) ==
  IF children.err # "" THEN [children EXCEPT !.v = Undefined]
  ELSE [children EXCEPT !.v = IF isArray(node) THEN Arr(@) ELSE Obj(Keys(node), @)]

descend(path, firstPass, visited) ==
  IF visited.err # "" \/ ~isIndexable(visited.v) THEN visited
  ELSE PrependLog(visited.log,
                  rebuild(visited.v,
                          walkChildren(visited.v, ObjectKeys(visited.v), path, firstPass)))

walk(node, path, firstPass) == descend(path, firstPass, visit(node, path, firstPass))

\* lines 54-56: the second walk, over the result of the first
secondWalk(mappingObjectWithResolvedParameters) ==
  IF mappingObjectWithResolvedParameters.err # ""
  THEN mappingObjectWithResolvedParameters
  ELSE PrependLog(mappingObjectWithResolvedParameters.log,
                  walk(mappingObjectWithResolvedParameters.v, {}, FALSE))

mapTwoPass == secondWalk(walk(mappingObject, {}, TRUE))

(***************************************************************************)
(* The map call: new JsonMapper(...) and then map()                        *)
(***************************************************************************)
\* a variant of the constructor without the check of the mapping
Construct_noMappingCheck ==
  /\ pc = "new"
  /\ IF ~isObject(sourceObject)
     THEN pc' = "raised" /\ error' = "No source object provided"
     ELSE pc' = "constructed" /\ error' = ""
  /\ UNCHANGED <<sourceObject, mappingObject, transformSource, preProcess,
                 output, calls, warnings>>

\* lines 14-25
Construct ==
  /\ pc = "new"
  /\ IF ~isObject(sourceObject)
     THEN pc' = "raised" /\ error' = "No source object provided"
     ELSE IF ~isObject(mappingObject)
     THEN pc' = "raised" /\ error' = "No mapping provided"
     ELSE pc' = "constructed" /\ error' = ""
  /\ UNCHANGED <<sourceObject, mappingObject, transformSource, preProcess,
                 output, calls, warnings>>

\* the function invocations and the console.warn calls of a map call
Invocations(log) == SelectSeq(log, LAMBDA entry : entry.via # "console.warn")
Warnings(log) == SelectSeq(log, LAMBDA entry : entry.via = "console.warn")

\* a variant that replaces the mapping nodes in the mapping object itself
Finish_inPlace(result) ==
  /\ calls' = Invocations(result.log)
  /\ warnings' = Warnings(result.log)
  /\ IF result.err # ""
     THEN pc' = "raised" /\ error' = result.err /\ output' = Undefined
          /\ mappingObject' = mappingObject
     ELSE pc' = "returned" /\ error' = "" /\ output' = result.v
          /\ mappingObject' = result.v
  /\ UNCHANGED <<sourceObject, transformSource, preProcess>>

\* the map call returns the output tree or raises
Finish(result) ==
  /\ calls' = Invocations(result.log)
  /\ warnings' = Warnings(result.log)
  /\ IF result.err # ""
     THEN pc' = "raised" /\ error' = result.err /\ output' = Undefined
     ELSE pc' = "returned" /\ error' = "" /\ output' = result.v
  /\ UNCHANGED <<sourceObject, mappingObject, transformSource, preProcess>>

\* lines 30-40 and 119
Map == pc = "constructed" /\ Finish(map)

\* map() of the two-pass evaluator
MapTwoPass == pc = "constructed" /\ Finish(mapTwoPass)

\* the caller has the outcome of a map call
Called == {"returned", "raised", "returnedAgain", "raisedAgain"}

\* the constructor of a later call raises
RaiseAgain(message) ==
  /\ pc' = "raisedAgain" /\ error' = message /\ output' = Undefined /\ calls' = <<>>
  /\ warnings' = <<>>
  /\ UNCHANGED <<sourceObject, mappingObject, transformSource, preProcess>>

\* a later call returns the output tree or raises
FinishAgain(result) ==
  /\ calls' = Invocations(result.log)
  /\ warnings' = Warnings(result.log)
  /\ IF result.err # ""
     THEN pc' = "raisedAgain" /\ error' = result.err /\ output' = Undefined
     ELSE pc' = "returnedAgain" /\ error' = "" /\ output' = result.v
  /\ UNCHANGED <<sourceObject, mappingObject, transformSource, preProcess>>

\* lines 117-120, once more with the same arguments: a new JsonMapper, then map()
MapAgain ==
  /\ pc \in Called
  /\ IF ~isObject(sourceObject) THEN RaiseAgain("No source object provided")
     ELSE IF ~isObject(mappingObject) THEN RaiseAgain("No mapping provided")
     ELSE FinishAgain(map)

Next == Construct \/ Map \/ MapAgain

NextTwoPass == Construct \/ MapTwoPass

(***************************************************************************)
(* Inputs of a map call                                                    *)
(***************************************************************************)
MaxPathLen == 2
MaxSources == 2
MaxCalls == 2

SeqsUpTo(S, n) == UNION {[1..m -> S] : m \in 0..n}
SeqsFromTo(S, m, n) == UNION {[1..h -> S] : h \in m..n}

\* an object literal: a key whose value is undefined is left out
Literal(pairs) ==
  LET present == SelectSeq(pairs, LAMBDA p : p[2] # Undefined)
  IN Obj([i \in 1..Len(present) |-> present[i][1]],
         [i \in 1..Len(present) |-> present[i][2]])

Call(name, parameters) == Obj(<<name>>, <<Arr(parameters)>>)

MappingNode(source, condition, default, transform, transformEach) ==
  Literal(<< <<"_source", source>>, <<"_condition", condition>>,
             <<"_default", default>>, <<"_transform", transform>>,
             <<"_transformEach", transformEach>> >>)

Template(node) == Obj(<<"x">>, <<node>>)

\* source trees: objects and arrays of up to two children, two levels deep
Scalars == {Null, Num(0), Num(1)}
KeyLists == {<<>>, <<"a">>, <<"b">>, <<"a", "b">>}
ObjectsOf(S) == UNION {{Obj(ks, vs) : vs \in [1..Len(ks) -> S]} : ks \in KeyLists}
ArraysOf(S) ==
  {Arr(<<>>)} \cup {Arr(<<v>>) : v \in S} \cup {Arr(<<v, w>>) : v \in S, w \in S}
Level1 ==
  Scalars
    \cup {Obj(<<>>, <<>>), Obj(<<"a">>, <<Num(1)>>), Obj(<<"b">>, <<Num(0)>>),
          Obj(<<"a", "b">>, <<Null, Num(1)>>)}
    \cup {Arr(<<>>), Arr(<<Num(1)>>), Arr(<<Null, Num(1)>>)}
SourceTrees == ObjectsOf(Level1) \cup ArraysOf(Level1)

\* key-paths of up to MaxPathLen segments
Segments == {"a", "b", "0", "*"}
RECURSIVE PathsOfLen(_)
PathsOfLen(n) ==
  IF n = 1 THEN Segments
  ELSE {p \o "." \o s : p \in PathsOfLen(n - 1), s \in Segments}
KeyPaths == UNION {PathsOfLen(n) : n \in 1..MaxPathLen}

\* the function table of the caller, or none
FunctionNames == <<"returnTrue", "returnFalse", "returnOne", "returnUndefined",
                   "testCondition", "wrap", "isArray", "increment", "double", "fail">>
FunctionTable == Obj(FunctionNames, [i \in 1..Len(FunctionNames) |-> Fn(FunctionNames[i])])
FunctionTables == {FunctionTable, Undefined}

PreProcessors == {Undefined, Fn("nullToUndefined")}

Start(source, mapping, table, pre) ==
  /\ sourceObject = source
  /\ mappingObject = mapping
  /\ transformSource = table
  /\ preProcess = pre
  /\ pc = "new"
  /\ output = Undefined
  /\ calls = <<>>
  /\ warnings = <<>>
  /\ error = ""

\* one key-path, looked up in every source tree
InitPaths ==
  \E source \in SourceTrees, path \in KeyPaths, default \in {Undefined, Str("d")} :
    Start(source, Template(MappingNode(Str(path), Undefined, default, Undefined, Undefined)),
          Undefined, Undefined)

\* several key-paths in one node
SmallSources == ObjectsOf(Scalars \cup {Arr(<<Num(1), Null>>)})
InitMultiSource ==
  \E source \in SmallSources,
     paths \in SeqsFromTo({Str(p) : p \in {"a", "b", "*", "a.0"}}, 0, MaxSources),
     default \in {Undefined, Str("d")},
     pre \in PreProcessors :
    Start(source, Template(MappingNode(Arr(paths), Undefined, default, Undefined, Undefined)),
          Undefined, pre)

\* a source or a mapping that is no object
InitArguments ==
  \E source \in {Undefined, Null, Num(1), Str("a"), Arr(<<>>), Obj(<<"a">>, <<Num(1)>>)},
     mapping \in {Undefined, Null, Num(1), Str("a"), Arr(<<>>),
                  Template(MappingNode(Str("a"), Call("returnTrue", <<>>), Undefined,
                                       Call("increment", <<>>), Undefined))},
     pre \in PreProcessors :
    Start(source, mapping, FunctionTable, pre)

FunctionSource ==
  Obj(<<"a", "b", "l">>, <<Num(1), Null, Arr(<<Num(1), Num(2)>>)>>)
NodeSources ==
  {Str("a"), Str("b"), Str("c"), Str("l"),
   Arr(<<Str("a"), Str("c")>>), Arr(<<Str("c"), Str("c")>>)}

ConditionCalls ==
  {Call("returnTrue", <<>>), Call("returnFalse", <<>>), Call("!returnFalse", <<>>),
   Call("returnOne", <<>>), Call("fail", <<>>), Call("nope", <<>>),
   Call("isArray", <<>>), Call("testCondition", <<Bool(TRUE)>>)}
TransformCalls ==
  {Call("increment", <<>>), Call("double", <<>>), Call("wrap", <<>>),
   Call("returnUndefined", <<>>), Call("fail", <<>>), Call("nope", <<>>)}

\* one call, or a sequence of calls
CallSpecs(S) == S \cup {Arr(cs) : cs \in SeqsUpTo(S, MaxCalls)}

\* nodes with a condition
InitConditions ==
  \E source \in NodeSources,
     condition \in CallSpecs(ConditionCalls),
     default \in {Undefined, Str("d")},
     transform \in {Undefined, Call("wrap", <<>>)},
     table \in FunctionTables,
     pre \in PreProcessors :
    Start(FunctionSource,
          Template(MappingNode(source, condition, default, transform, Undefined)),
          table, pre)

\* nodes with a transform chain
InitTransforms ==
  \E source \in NodeSources,
     condition \in {Undefined, Call("returnTrue", <<>>), Call("returnFalse", <<>>)},
     default \in {Undefined, Str("d")},
     transform \in CallSpecs(TransformCalls),
     transformEach \in {Undefined, Call("increment", <<>>)},
     table \in FunctionTables,
     pre \in PreProcessors :
    Start(FunctionSource,
          Template(MappingNode(source, condition, default, transform, transformEach)),
          table, pre)

\* function names with the prefixes ! and @, as a condition or as the first
\* call of a transform
Prefixes == {"", "!", "@", "@!", "!@"}
PrefixedNames == {"returnTrue", "returnFalse", "returnOne", "testCondition",
                  "wrap", "isArray", "nope"}
PrefixedCalls ==
  {Call(prefix \o name, parameters) :
     prefix \in Prefixes, name \in PrefixedNames,
     parameters \in {<<>>, <<Bool(TRUE)>>, <<Num(0), Bool(FALSE)>>}}
InitPrefixes ==
  \E source \in {Str("a"), Str("l")},
     call \in PrefixedCalls,
     asCondition \in BOOLEAN,
     next \in {Undefined, Call("wrap", <<>>)},
     default \in {Undefined, Str("d")} :
    Start(FunctionSource,
          Template(MappingNode(source,
                               IF asCondition THEN call ELSE Undefined,
                               default,
                               IF asCondition THEN next
                               ELSE IF isUndefined(next) THEN call
                               ELSE Arr(<<call, next>>),
                               Undefined)),
          FunctionTable, Undefined)

\* mapping nodes inside the condition, transform or default of a mapping node,
\* up to MaxNesting levels deep
MaxNesting == 2
LeafNodes ==
  {MappingNode(Str("a"), Undefined, Undefined, Undefined, Undefined),
   MappingNode(Str("b"), Undefined, Undefined, Undefined, Undefined),
   MappingNode(Str("0"), Undefined, Str("d"), Undefined, Undefined)}
\* a mapping node with the value as an argument of its condition or of its
\* transform, or as its default
Enclosing(value) ==
  {MappingNode(Str("a"), Call("testCondition", <<value>>), Str("d"), Undefined, Undefined),
   MappingNode(Str("a"), Undefined, Undefined, Call("testCondition", <<value>>), Undefined),
   MappingNode(Str("0"), Undefined, value, Undefined, Undefined)}
RECURSIVE NestedNodes(_)
NestedNodes(depth) ==
  IF depth = 0 THEN LeafNodes
  ELSE UNION {Enclosing(value) : value \in NestedNodes(depth - 1)}
InitNested ==
  \E depth \in 1..MaxNesting :
    \E node \in NestedNodes(depth) :
      Start(FunctionSource, Template(node), FunctionTable, Undefined)

\* templates of scalars, objects and arrays with mapping nodes at some of
\* their leaves, and templates with no mapping node
TemplateLeaves == {Str("s"), Null, Num(2)} \cup LeafNodes
TemplateParts ==
  TemplateLeaves
    \cup {Obj(<<>>, <<>>), Arr(<<>>)}
    \cup {Obj(<<"k">>, <<leaf>>) : leaf \in TemplateLeaves}
    \cup {Arr(<<first, second>>) : first, second \in {Num(2)} \cup LeafNodes}
Templates ==
  {Obj(<<"p", "q">>, <<first, second>>) : first, second \in TemplateParts}
    \cup {Obj(<<"q", "p">>, <<first, Str("s")>>) : first \in TemplateParts}
    \cup {Arr(<<first>>) : first \in TemplateParts}
    \cup {Arr(<<Null, first, Num(2)>>) : first \in TemplateParts}
    \cup LeafNodes
InitStructure ==
  \E source \in {FunctionSource, Obj(<<"a">>, <<Str("s")>>)}, template \in Templates :
    Start(source, template, Undefined, Undefined)

\* conditional transform groups
MaxGroups == 2
Group(condition, transform) ==
  Literal(<< <<"_condition", condition>>, <<"_transform", transform>> >>)
Groups ==
  {Group(condition, transform) :
     condition \in {Call("returnTrue", <<>>), Call("returnFalse", <<>>),
                    Call("isArray", <<>>), Call("fail", <<>>)},
     transform \in {Call("increment", <<>>), Call("wrap", <<>>)}}
PlainCalls == {Call("increment", <<>>), Call("wrap", <<>>), Call("fail", <<>>)}
GroupSpecs ==
  Groups \cup {Arr(gs) : gs \in SeqsFromTo(Groups, 1, MaxGroups)}
MixedSpecs ==
  {Arr(<<g, c>>) : g \in Groups, c \in PlainCalls}
    \cup {Arr(<<c, g>>) : g \in Groups, c \in PlainCalls}

\* a node whose transform holds conditional transform groups
InitGroups ==
  \E source \in {Str("a"), Str("l")}, default \in {Undefined, Str("d")},
     transform \in GroupSpecs \cup MixedSpecs :
    Start(FunctionSource,
          Template(MappingNode(source, Undefined, default, transform, Undefined)),
          FunctionTable, Undefined)

\* nodes with a transformEach chain, with and without a transform before it
EachCalls ==
  {Call("increment", <<>>), Call("wrap", <<>>), Call("fail", <<>>),
   Call("@returnOne", <<>>),
   Arr(<<Call("increment", <<>>), Call("double", <<>>)>>),
   Arr(<<Call("wrap", <<>>), Call("isArray", <<>>)>>)}
InitTransformEach ==
  \E source \in {Str("l"), Str("a"), Str("b"), Str("c"), Arr(<<Str("a"), Str("c")>>),
                  Arr(<<Str("c"), Str("a")>>), Arr(<<Str("l"), Str("b")>>)},
     transform \in {Undefined, Call("wrap", <<>>), Call("increment", <<>>)},
     transformEach \in EachCalls,
     default \in {Undefined, Str("d")} :
    Start(FunctionSource,
          Template(MappingNode(source, Undefined, default, transform, transformEach)),
          FunctionTable, Undefined)

\* nodes with one key-path or several, and a preProcess function that wraps
\* its input, maps undefined to 0, maps null to undefined, or throws
PreProcessFunctions ==
  {Fn("wrap"), Fn("undefinedToZero"), Fn("nullToUndefined"), Fn("throwError")}
PreProcessedSources ==
  {Str("a"), Str("b"), Str("l"), Str("c"), Str("*"), Str("l.*"),
   Arr(<<Str("a"), Str("c")>>), Arr(<<Str("c"), Str("a")>>),
   Arr(<<Str("c"), Str("c")>>), Arr(<<Str("l.*"), Str("a")>>),
   Arr(<<Str("b"), Str("l")>>), Arr(<<Str("c")>>)}
InitPreProcess ==
  \E source \in PreProcessedSources,
     pre \in PreProcessFunctions \cup {Undefined},
     default \in {Undefined, Str("d")},
     transform \in {Undefined, Call("wrap", <<>>), Call("@returnOne", <<>>),
                    Arr(<<Call("@returnOne", <<>>), Call("wrap", <<>>)>>)} :
    Start(FunctionSource,
          Template(MappingNode(source, Undefined, default, transform, Undefined)),
          FunctionTable, pre)

\* a source tree whose values are objects with a _source or a _sources key,
\* one of them with such an object inside it, under mapping nodes that resolve
\* to them, alone or nested in a clause
TemplateLikeSource ==
  Obj(<<"a", "b">>,
      <<Obj(<<"_source", "n">>, <<Str("b"), Obj(<<"_source">>, <<Str("b")>>)>>),
        Obj(<<"_sources", "_default">>, <<Arr(<<Str("a")>>), Str("d")>>)>>)
InitSourceValues ==
  \E node \in LeafNodes \cup UNION {NestedNodes(depth) : depth \in 1..MaxNesting},
     pre \in {Undefined, Fn("nullToUndefined")} :
    Start(TemplateLikeSource, Template(node), FunctionTable, pre)

Init ==
  \/ InitGroups
  \/ InitSourceValues
  \/ InitPreProcess
  \/ InitTransformEach
  \/ InitNested
  \/ InitStructure
  \/ InitPaths
  \/ InitMultiSource
  \/ InitArguments
  \/ InitConditions
  \/ InitTransforms
  \/ InitPrefixes

Spec == Init /\ [][Next]_vars

InitTwoPass ==
  \E source \in NodeSources,
     condition \in {Undefined, Call("returnTrue", <<>>), Call("returnFalse", <<>>),
                    Call("fail", <<>>)},
     default \in {Undefined, Str("d")},
     transform \in {Undefined} \cup CallSpecs(PlainCalls) \cup GroupSpecs \cup MixedSpecs,
     table \in FunctionTables,
     pre \in PreProcessors :
    Start(FunctionSource,
          Template(MappingNode(source, condition, default, transform, Undefined)),
          table, pre)

InitTwoPassCalls == InitTwoPass \/ InitArguments \/ InitNested \/ InitSourceValues

SpecTwoPass == InitTwoPassCalls /\ [][NextTwoPass]_vars

(***************************************************************************)
(* What the properties speak about                                         *)
(***************************************************************************)
\* the children of a tree with their keys: a scalar or null has none
Children(tree) ==
  CASE TypeOf(tree) = "object" ->
         [i \in 1..Len(Keys(tree)) |-> <<Keys(tree)[i], Val(tree)[i]>>]
    [] TypeOf(tree) = "array" ->
         [i \in 1..Len(Val(tree)) |-> <<ToString(i - 1), Val(tree)[i]>>]
    [] OTHER -> <<>>
\* the value is, or has inside it, an object with a source key: the source
\* trees have none, so that it is a mapping node that was not resolved
RECURSIVE HasMappingNode(_)
HasMappingNode(value) ==
  \/ /\ TypeOf(value) = "object"
     /\ {"_source", "_sources"} \cap Range(Keys(value)) # {}
  \/ \E i \in 1..Len(Children(value)) : HasMappingNode(Children(value)[i][2])
\* the template is { x: <mapping node> }
TheNode == Prop(mappingObject, "x")
\* the node has a mapping node in its condition, transform or default
HasNestedNode ==
  /\ isIndexable(mappingObject) /\ isMappingNode(TheNode)
  /\ \E i \in 1..Len(Children(TheNode)) :
       /\ Children(TheNode)[i][1] \notin {"_source", "_sources"}
       /\ HasMappingNode(Children(TheNode)[i][2])
\* the template is one mapping node with no mapping node inside it
IsNodeTemplate ==
  isIndexable(mappingObject) /\ isMappingNode(TheNode) /\ ~HasNestedNode
NodeSource == Prop(TheNode, "_source")
NodeCondition == Prop(TheNode, "_condition")
NodeDefault == Prop(TheNode, "_default")
NodeTransform == Prop(TheNode, "_transform")
NodeTransformEach == Prop(TheNode, "_transformEach")
\* what the node was replaced with in the output tree
ResultX == Prop(output, "x")
ConstructorErrors == {"No source object provided", "No mapping provided"}
MixingError == "Mixing of conditional transforms and normal transforms not allowed"

\* the key-path written from its segments
RECURSIVE Join(_)
Join(segments) ==
  IF Len(segments) = 1 THEN segments[1]
  ELSE segments[1] \o "." \o Join(Tail(segments))
SegmentSeqs == UNION {[1..n -> Segments] : n \in 1..MaxPathLen}
SegmentsOf(keyPath) == CHOOSE segments \in SegmentSeqs : Join(segments) = keyPath
IsKeyPath(value) == isString(value) /\ \E segments \in SegmentSeqs : Join(segments) = Val(value)

\* the values stored in the tree at the places the segments lead to, in the
\* order of the tree's keys: a segment leads to the child with that key, the
\* segment "*" to every child; a scalar or null has no children
RECURSIVE StoredAt(_, _)
StoredAt(tree, segments) ==
  IF segments = <<>> THEN <<tree>>
  ELSE Flatten([i \in 1..Len(Children(tree)) |->
                  IF Head(segments) \in {"*", Children(tree)[i][1]}
                  THEN StoredAt(Children(tree)[i][2], Tail(segments))
                  ELSE <<>>])
\* what a key-path is to resolve to
Expected(tree, segments) ==
  LET stored == StoredAt(tree, segments)
  IN CASE Len(stored) = 0 -> Undefined
       [] Len(stored) = 1 -> stored[1]
       [] OTHER -> Arr(stored)

\* a node with nothing but a source and, possibly, a default
IsPlainNode ==
  /\ IsNodeTemplate
  /\ ~Truthy(NodeCondition) /\ ~Truthy(NodeTransform) /\ ~Truthy(NodeTransformEach)
  /\ ~isFunction(preProcess)
ConditionCallList == ConcatOne(NodeCondition)
TransformCallList == ConcatOne(NodeTransform)
Via(phase) == SelectSeq(calls, LAMBDA entry : entry.via = phase)

\* one condition call of the node yields exactly true
YieldsTrue(functionObject) ==
  LET ran == _runFunction(functionObject, _resolveSource(NodeSource))
  IN ~ran.thrown /\ ran.v = Bool(TRUE)
AllYieldTrue == \A i \in 1..Len(ConditionCallList) : YieldsTrue(ConditionCallList[i])
ConditionMet == ~Truthy(NodeCondition) \/ AllYieldTrue

\* the node's value after preprocessing, after the transform and after
\* transformEach
AfterPreProcessing == preProcessSources(NodeSource, _resolveSource(NodeSource)).v
AfterTransformOf(value) ==
  IF Truthy(NodeTransform) /\ ~isUndefined(value)
  THEN transformValue(value, NodeTransform).v
  ELSE value
AfterTransformEachOf(value) ==
  IF Truthy(NodeTransformEach) /\ isArray(value)
  THEN Arr(transformEachValue(Val(value), NodeTransformEach).v)
  ELSE value
CurrentValue == AfterTransformEachOf(AfterTransformOf(AfterPreProcessing))
OrNodeDefault(value) == IF isUndefined(value) THEN NodeDefault ELSE value

\* the first n calls of a chain applied one after the other, the first to
\* value: whether one of them failed, and the value of the last otherwise
RECURSIVE Composed(_, _, _)
ComposedNext(functionObject, before) ==
  IF before.failed THEN before
  ELSE [failed |-> _runFunction(functionObject, before.v).thrown,
        v |-> _runFunction(functionObject, before.v).v]
Composed(list, value, n) ==
  IF n = 0 THEN [failed |-> FALSE, v |-> value]
  ELSE ComposedNext(list[n], Composed(list, value, n - 1))
ChainResult == Composed(TransformCallList, AfterPreProcessing, Len(TransformCallList))
\* the transform chain of the node is run
ChainIsRun ==
  /\ pc = "returned" /\ IsNodeTemplate /\ ConditionMet
  /\ Truthy(NodeTransform) /\ ~isUndefined(AfterPreProcessing)
\* a sequence with conditional transforms and normal transforms
IsGroup(functionObject) ==
  Truthy(Prop(functionObject, "_condition")) /\ Truthy(Prop(functionObject, "_transform"))
IsMixed(transformFunctionObjects) ==
  /\ \E i \in 1..Len(transformFunctionObjects) : IsGroup(transformFunctionObjects[i])
  /\ \E i \in 1..Len(transformFunctionObjects) : ~IsGroup(transformFunctionObjects[i])

(***************************************************************************)
(* Properties                                                              *)
(***************************************************************************)
\* C1: with a source tree and a template given, and no sequence that mixes
\* conditional and normal transforms, map never raises because a condition
\* or transform function throws or is missing from the function table (or
\* the table is omitted): it returns an output tree.
C1_FunctionFailureNeverRaises ==
  /\ pc = "raised" => error \in ConstructorErrors \cup {MixingError}
  /\ pc = "raised" /\ error = MixingError => IsMixed(TransformCallList)
  /\ pc = "raised" /\ error \in ConstructorErrors =>
       ~isObject(sourceObject) \/ ~isObject(mappingObject)
  /\ pc = "returned" => isIndexable(output)

\* a map call returned the default of a node whose transform function threw
C1_Witness ==
  /\ pc = "returned" /\ IsNodeTemplate
  /\ \E i \in 1..Len(calls) : calls[i].via = "Transform" /\ calls[i].fn = "fail"
  /\ ResultX = Str("d")

\* C2: when the source tree or the template is no object or array, the call
\* raises a configuration error, the source tree's before the template's,
\* before a key-path is resolved or a function is invoked, and returns no
\* output tree.
C2_ConfigurationErrorFirst ==
  /\ pc # "new" /\ ~isObject(sourceObject) =>
       /\ pc \in {"raised", "raisedAgain"} /\ error = "No source object provided"
       /\ calls = <<>> /\ output = Undefined
  /\ pc # "new" /\ isObject(sourceObject) /\ ~isObject(mappingObject) =>
       /\ pc \in {"raised", "raisedAgain"} /\ error = "No mapping provided"
       /\ calls = <<>> /\ output = Undefined
  /\ pc \in {"constructed", "returned", "returnedAgain"} =>
       isObject(sourceObject) /\ isObject(mappingObject)

\* a call with a source tree and a template that is null raised
C2_Witness ==
  /\ pc = "raised" /\ error = "No mapping provided"
  /\ isObject(sourceObject) /\ mappingObject = Null /\ isFunction(preProcess)

\* C3: a node whose condition is met resolves to its default exactly when
\* its value is absent after preprocessing, transform and transformEach, and
\* to that value otherwise; without a default an absent value stays absent.
\* A node with a source and a default only, whose path is missing in the
\* source tree, resolves to the default.
C3_DefaultExactlyWhenAbsent ==
  /\ pc = "returned" /\ IsNodeTemplate /\ ConditionMet =>
       /\ ResultX = OrNodeDefault(CurrentValue)
       /\ isUndefined(NodeDefault) /\ isUndefined(CurrentValue) => isUndefined(ResultX)
       /\ ~isUndefined(CurrentValue) => ResultX = CurrentValue
  /\ pc = "returned" /\ IsPlainNode /\ IsKeyPath(NodeSource) =>
       (StoredAt(sourceObject, SegmentsOf(Val(NodeSource))) = <<>> => ResultX = NodeDefault)

\* a node whose value a transform made absent resolved to its default
C3_Witness ==
  /\ pc = "returned" /\ IsNodeTemplate /\ ConditionMet
  /\ ~isUndefined(AfterPreProcessing) /\ Truthy(NodeTransform)
  /\ isUndefined(CurrentValue)
  /\ NodeDefault = Str("d") /\ ResultX = Str("d")

\* C4: a key-path without "*" resolves to the value stored at the nested
\* path when every segment exists, null and 0 included, and to absent when a
\* segment is missing or an intermediate value has no children.
C4_PathWithoutWildcard ==
  pc = "returned" /\ IsPlainNode /\ IsKeyPath(NodeSource)
    /\ "*" \notin Range(SegmentsOf(Val(NodeSource))) =>
      LET stored == StoredAt(sourceObject, SegmentsOf(Val(NodeSource)))
      IN /\ Len(stored) <= 1
         /\ Len(stored) = 1 => ResultX = stored[1]
         /\ Len(stored) = 0 => ResultX = NodeDefault
         /\ Len(stored) = 0 /\ isUndefined(NodeDefault) => isUndefined(ResultX)

\* a nested path of two segments resolved to the null stored there
C4_Witness ==
  /\ pc = "returned" /\ IsPlainNode /\ IsKeyPath(NodeSource)
  /\ "*" \notin Range(SegmentsOf(Val(NodeSource)))
  /\ Len(SegmentsOf(Val(NodeSource))) = 2
  /\ StoredAt(sourceObject, SegmentsOf(Val(NodeSource))) = <<Null>>
  /\ NodeDefault = Str("d")
  /\ ResultX = Null

\* C5: a key-path with "*" resolves to absent when no concrete path leads to
\* a value, to the value itself when exactly one does, and to the sequence of
\* the values in the order of the tree walk when several do.
C5_PathWithWildcard ==
  pc = "returned" /\ IsPlainNode /\ IsKeyPath(NodeSource)
    /\ "*" \in Range(SegmentsOf(Val(NodeSource))) =>
      LET stored == StoredAt(sourceObject, SegmentsOf(Val(NodeSource)))
      IN /\ Len(stored) = 0 => ResultX = NodeDefault
         /\ Len(stored) = 1 => ResultX = stored[1]
         /\ Len(stored) > 1 => ResultX = Arr(stored)

\* a wildcard path with two branches, one of which leads to a value, resolved
\* to that value, not to a sequence of one
C5_Witness ==
  /\ pc = "returned" /\ IsPlainNode /\ IsKeyPath(NodeSource)
  /\ "*" \in Range(SegmentsOf(Val(NodeSource)))
  /\ Len(dotty_search(sourceObject, SegmentsOf(Val(NodeSource)))) = 2
  /\ Len(StoredAt(sourceObject, SegmentsOf(Val(NodeSource)))) = 1
  /\ ResultX = StoredAt(sourceObject, SegmentsOf(Val(NodeSource)))[1]
  /\ ~isArray(ResultX)

\* the key-paths of a node with several sources, and what each is to resolve to
NodeKeyPaths == Val(NodeSource)
HasKeyPaths ==
  isArray(NodeSource) /\ \A i \in 1..Len(NodeKeyPaths) : IsKeyPath(NodeKeyPaths[i])
ExpectedAt(i) == Expected(sourceObject, SegmentsOf(Val(NodeKeyPaths[i])))

\* C6: a sequence of n key-paths resolves to absent when every path resolves
\* to absent, and otherwise to a sequence of n values in the order of the
\* paths, with absent in the place of each path that resolves to absent.
C6_SeveralSources ==
  pc = "returned" /\ IsPlainNode /\ HasKeyPaths =>
    IF \A i \in 1..Len(NodeKeyPaths) : isUndefined(ExpectedAt(i))
    THEN ResultX = NodeDefault
    ELSE /\ isArray(ResultX)
         /\ Len(Val(ResultX)) = Len(NodeKeyPaths)
         /\ \A i \in 1..Len(NodeKeyPaths) : Val(ResultX)[i] = ExpectedAt(i)

\* two key-paths, the first of which is missing in the source tree, resolved
\* to a sequence of absent and the value of the second
C6_Witness ==
  /\ pc = "returned" /\ IsPlainNode /\ HasKeyPaths
  /\ Len(NodeKeyPaths) = 2
  /\ isUndefined(ExpectedAt(1)) /\ ~isUndefined(ExpectedAt(2))
  /\ ResultX = Arr(<<Undefined, ExpectedAt(2)>>)

\* C7: the condition of a node is met exactly when every condition call
\* yields exactly true: a call that yields another value, throws or names a
\* function the table does not have counts as false. The check never raises,
\* and every call whose function exists is made.
C7_ConditionIsConjunction ==
  pc = "returned" /\ IsNodeTemplate /\ Truthy(NodeCondition) =>
    /\ ~AllYieldTrue =>
         /\ ResultX = NodeDefault
         /\ \A i \in 1..Len(calls) : calls[i].via = "Condition"
    /\ AllYieldTrue => ResultX = OrNodeDefault(CurrentValue)
    /\ Len(Via("Condition"))
         = Cardinality({i \in 1..Len(ConditionCallList) :
                          _runFunction(ConditionCallList[i],
                                       _resolveSource(NodeSource)).call # <<>>})

\* of two condition calls the first yielded true and the second the number 1:
\* the node resolved to its default although its source has a value
C7_Witness ==
  /\ pc = "returned" /\ IsNodeTemplate
  /\ Len(ConditionCallList) = 2
  /\ YieldsTrue(ConditionCallList[1])
  /\ _runFunction(ConditionCallList[2], _resolveSource(NodeSource)).v = Num(1)
  /\ ~isUndefined(_resolveSource(NodeSource))
  /\ Len(calls) = 2
  /\ ResultX = Str("d")

\* C8: a node whose condition is not met resolves to its default, or to
\* absent without one; the preprocessor and the functions of its transform
\* are not invoked.
C8_ConditionNotMetSkipsTransforms ==
  pc \in {"returned", "raised"} /\ IsNodeTemplate /\ isObject(sourceObject)
    /\ Truthy(NodeCondition) /\ ~AllYieldTrue =>
      /\ pc = "returned"
      /\ ResultX = NodeDefault
      /\ \A i \in 1..Len(calls) : calls[i].via = "Condition"
      /\ Len(calls) <= Len(ConditionCallList)

\* C9: a transform chain none of whose calls fails yields the value of the
\* last call, each call being applied to the value of the call before it and
\* the first to the node's value, in the order of the chain.
C9_ChainIsComposition ==
  ChainIsRun /\ ~ChainResult.failed =>
    /\ ~Truthy(NodeTransformEach) =>
         /\ ResultX = OrNodeDefault(ChainResult.v)
         /\ Len(Via("Transform")) = Len(TransformCallList)
    /\ (\A i \in 1..Len(TransformCallList) :
          FirstKey(TransformCallList[i]) \in Range(FunctionNames)) =>
         \A i \in 1..Len(TransformCallList) :
           /\ Via("Transform")[i].fn = FirstKey(TransformCallList[i])
           /\ Via("Transform")[i].args[1]
                = Composed(TransformCallList, AfterPreProcessing, i - 1).v

\* a chain of increment and double on the value 1 yielded 4
C9_Witness ==
  /\ ChainIsRun /\ ~ChainResult.failed
  /\ Len(TransformCallList) = 2
  /\ FirstKey(TransformCallList[1]) = "increment"
  /\ FirstKey(TransformCallList[2]) = "double"
  /\ AfterPreProcessing = Num(1)
  /\ ResultX = Num(4)

\* C10: when a call of a transform chain throws or names a function the
\* table does not have, the chain yields absent, never the value reached
\* before the failure: the node resolves to its default, or to absent without
\* one, and no call after the failing one is made.
C10_ChainFailureYieldsAbsent ==
  ChainIsRun /\ ChainResult.failed =>
    /\ ResultX = NodeDefault
    /\ \A i \in 1..Len(TransformCallList) :
         Composed(TransformCallList, AfterPreProcessing, i).failed
           => Len(Via("Transform")) <= i

\* the second call of a chain failed after the first had changed the value:
\* the node resolved to its default
C10_Witness ==
  /\ ChainIsRun /\ ChainResult.failed
  /\ Len(TransformCallList) = 2
  /\ ~Composed(TransformCallList, AfterPreProcessing, 1).failed
  /\ Composed(TransformCallList, AfterPreProcessing, 1).v # AfterPreProcessing
  /\ Len(Via("Transform")) = 2
  /\ ResultX = Str("d")

\* a function name as the prefix and the name it was written from
ParsedName(functionName) ==
  CHOOSE parts \in Prefixes \X (PrefixedNames \cup Range(FunctionNames)) :
    parts[1] \o parts[2] = functionName
IsPrefixedName(functionName) ==
  \E parts \in Prefixes \X (PrefixedNames \cup Range(FunctionNames)) :
    parts[1] \o parts[2] = functionName
PrefixOf(functionObject) == ParsedName(FirstKey(functionObject))[1]
NameOf(functionObject) == ParsedName(FirstKey(functionObject))[2]
DeclaredOf(functionObject) == ConcatOne(Prop(functionObject, FirstKey(functionObject)))
\* the arguments the function is to be called with, and what it then returns
ArgumentsOf(functionObject, currentValue) ==
  IF PrefixOf(functionObject) \in {"@", "@!", "!@"}
  THEN DeclaredOf(functionObject)
  ELSE <<currentValue>> \o DeclaredOf(functionObject)
RawResult(functionObject, currentValue) ==
  Invoke(NameOf(functionObject), ArgumentsOf(functionObject, currentValue))
Negated(raw) == IF isBoolean(raw.v) THEN Bool(~Val(raw.v)) ELSE raw.v
\* the call names a function of the table, which returns when it is called
Succeeds(functionObject, currentValue) ==
  /\ IsPrefixedName(FirstKey(functionObject))
  /\ isObject(transformSource)
  /\ NameOf(functionObject) \in Range(FunctionNames)
  /\ ~RawResult(functionObject, currentValue).thrown
\* the node's result when the chain has one call, else the value the second
\* call of the chain received, if its function exists
AfterFirstCall(value) ==
  IF Len(TransformCallList) = 1 THEN ResultX = OrNodeDefault(value)
  ELSE Len(Via("Transform")) >= 2 => Via("Transform")[2].args[1] = value
FirstCallHas(prefixes) ==
  /\ ChainIsRun /\ ~Truthy(NodeTransformEach)
  /\ Len(TransformCallList) >= 1
  /\ IsPrefixedName(FirstKey(TransformCallList[1]))
  /\ PrefixOf(TransformCallList[1]) \in prefixes
  /\ Succeeds(TransformCallList[1], AfterPreProcessing)
ConditionHas(prefixes) ==
  /\ pc = "returned" /\ IsNodeTemplate /\ Truthy(NodeCondition)
  /\ Len(ConditionCallList) = 1
  /\ IsPrefixedName(FirstKey(ConditionCallList[1]))
  /\ PrefixOf(ConditionCallList[1]) \in prefixes
  /\ Succeeds(ConditionCallList[1], _resolveSource(NodeSource))

\* C11: a call whose name carries ! yields the negation of what the function
\* returns when that is a boolean, and what the function returns otherwise;
\* the function called is the one named without the prefix.
C11_InverseOnlyBooleans ==
  /\ FirstCallHas({"!"}) =>
       /\ Len(Via("Transform")) >= 1
       /\ Via("Transform")[1].fn = NameOf(TransformCallList[1])
       /\ AfterFirstCall(Negated(RawResult(TransformCallList[1], AfterPreProcessing)))
  /\ ConditionHas({"!"}) =>
       /\ Len(Via("Condition")) >= 1
       /\ Via("Condition")[1].fn = NameOf(ConditionCallList[1])
       /\ IF RawResult(ConditionCallList[1], _resolveSource(NodeSource)).v = Bool(FALSE)
          THEN ResultX = OrNodeDefault(CurrentValue)
          ELSE ResultX = NodeDefault /\ Len(calls) = 1

\* the transform !returnOne yielded 1, and not false
C11_Witness ==
  /\ FirstCallHas({"!"})
  /\ FirstKey(TransformCallList[1]) = "!returnOne"
  /\ Len(TransformCallList) = 1
  /\ ResultX = Num(1)

\* what a call is to yield: the negation under !, when it is a boolean
ExpectedResult(functionObject, currentValue) ==
  IF PrefixOf(functionObject) \in {"!", "@!", "!@"}
  THEN Negated(RawResult(functionObject, currentValue))
  ELSE RawResult(functionObject, currentValue).v

\* C12: a call without @ is invoked with the current value and then its
\* declared arguments, in order; a call with @ is invoked with its declared
\* arguments only, and its result still becomes the current value of the
\* chain.
C12_AtDropsCurrentValue ==
  /\ FirstCallHas({"", "!"}) =>
       /\ Len(Via("Transform")) >= 1
       /\ Via("Transform")[1].args
            = <<AfterPreProcessing>> \o DeclaredOf(TransformCallList[1])
  /\ FirstCallHas({"@", "@!", "!@"}) =>
       /\ Len(Via("Transform")) >= 1
       /\ Via("Transform")[1].args = DeclaredOf(TransformCallList[1])
  /\ FirstCallHas(Prefixes) =>
       AfterFirstCall(ExpectedResult(TransformCallList[1], AfterPreProcessing))
  /\ ConditionHas({"", "!"}) =>
       /\ Len(Via("Condition")) >= 1
       /\ Via("Condition")[1].args
            = <<_resolveSource(NodeSource)>> \o DeclaredOf(ConditionCallList[1])
  /\ ConditionHas({"@", "@!", "!@"}) =>
       /\ Len(Via("Condition")) >= 1
       /\ Via("Condition")[1].args = DeclaredOf(ConditionCallList[1])

\* @testCondition was called with its two declared arguments and returned the
\* second, which the next call of the chain received
C12_Witness ==
  /\ FirstCallHas({"@"})
  /\ FirstKey(TransformCallList[1]) = "@testCondition"
  /\ DeclaredOf(TransformCallList[1]) = <<Num(0), Bool(FALSE)>>
  /\ Len(TransformCallList) = 2
  /\ Via("Transform")[1].args = <<Num(0), Bool(FALSE)>>
  /\ ResultX = Arr(<<Bool(FALSE)>>)

\* C13: the names @!f and !@f both mean the function f with both prefixes
\* active: f is called with the declared arguments only and a boolean result
\* is negated, so both give the same result for the same arguments.
C13_PrefixOrderInsensitive ==
  /\ FirstCallHas({"@!", "!@"}) =>
       /\ Len(Via("Transform")) >= 1
       /\ Via("Transform")[1].fn = NameOf(TransformCallList[1])
       /\ Via("Transform")[1].args = DeclaredOf(TransformCallList[1])
       /\ AfterFirstCall(Negated(Invoke(NameOf(TransformCallList[1]),
                                        DeclaredOf(TransformCallList[1]))))
       /\ _checkFunctionPrefix("@!" \o NameOf(TransformCallList[1]))
            = _checkFunctionPrefix("!@" \o NameOf(TransformCallList[1]))
  /\ ConditionHas({"@!", "!@"}) =>
       /\ Len(Via("Condition")) >= 1
       /\ Via("Condition")[1].fn = NameOf(ConditionCallList[1])
       /\ Via("Condition")[1].args = DeclaredOf(ConditionCallList[1])
       /\ IF Invoke(NameOf(ConditionCallList[1]),
                    DeclaredOf(ConditionCallList[1])).v = Bool(FALSE)
          THEN ResultX = OrNodeDefault(CurrentValue)
          ELSE ResultX = NodeDefault /\ Len(calls) = 1

\* the transform @!testCondition with the arguments 0 and false yielded true
C13_Witness ==
  /\ FirstCallHas({"@!"})
  /\ FirstKey(TransformCallList[1]) = "@!testCondition"
  /\ DeclaredOf(TransformCallList[1]) = <<Num(0), Bool(FALSE)>>
  /\ Len(TransformCallList) = 1
  /\ ResultX = Bool(TRUE)

\* what a mapping node with a key-path and a default only is to resolve to
PlainResult(node) ==
  LET value == Expected(sourceObject, SegmentsOf(Val(Prop(node, "_source"))))
  IN IF isUndefined(value) THEN Prop(node, "_default") ELSE value

\* C14: a mapping node inside the condition, the transform or the default of
\* a mapping node, at any depth, is replaced by the value it resolves to
\* before a function of the enclosing node is invoked: no function receives
\* a mapping node, and none is left in the output tree. A default that is a
\* mapping node resolves against the source tree.
C14_NestedNodesResolvedFirst ==
  pc \in {"returned", "raised"} /\ isObject(sourceObject) /\ HasNestedNode
    /\ ~HasMappingNode(sourceObject) =>
    /\ pc = "returned"
    /\ \A i \in 1..Len(calls) :
         \A j \in 1..Len(calls[i].args) : ~HasMappingNode(calls[i].args[j])
    /\ ~HasMappingNode(output)
    /\ isUndefined(_resolveSource(NodeSource)) /\ NodeDefault \in LeafNodes =>
         ResultX = PlainResult(NodeDefault)
    /\ ~isUndefined(_resolveSource(NodeSource)) /\ Truthy(NodeTransform)
         /\ DeclaredOf(NodeTransform)[1] \in LeafNodes =>
           /\ Len(calls) = 1
           /\ calls[1].args = <<_resolveSource(NodeSource),
                                PlainResult(DeclaredOf(NodeTransform)[1])>>

\* an object with a source key
IsDirective(value) ==
  TypeOf(value) = "object" /\ {"_source", "_sources"} \cap Range(Keys(value)) # {}
\* a mapping node with a key-path and, possibly, a default that is no
\* mapping node
IsPlainDirective(value) ==
  /\ Range(Keys(value)) \subseteq {"_source", "_default"}
  /\ IsKeyPath(Prop(value, "_source"))
  /\ ~HasMappingNode(Prop(value, "_default"))
\* every mapping node of the template is a plain one
RECURSIVE OnlyPlainDirectives(_)
OnlyPlainDirectives(template) ==
  IF IsDirective(template) THEN IsPlainDirective(template)
  ELSE \A i \in 1..Len(Children(template)) : OnlyPlainDirectives(Children(template)[i][2])
\* the result is the template with its mapping nodes replaced: the same keys
\* in an object, the same length and order in a sequence, the same scalar
RECURSIVE IsCopyOf(_, _)
IsCopyOf(result, template) ==
  CASE IsDirective(template) -> result = PlainResult(template)
    [] TypeOf(template) = "object" ->
         /\ TypeOf(result) = "object"
         /\ Keys(result) = Keys(template)
         /\ \A i \in 1..Len(Keys(template)) : IsCopyOf(Val(result)[i], Val(template)[i])
    [] TypeOf(template) = "array" ->
         /\ TypeOf(result) = "array"
         /\ Len(Val(result)) = Len(Val(template))
         /\ \A i \in 1..Len(Val(template)) : IsCopyOf(Val(result)[i], Val(template)[i])
    [] OTHER -> result = template

\* C15: a template node that is no mapping node and lies in none is copied:
\* an object keeps its keys, a sequence its length and order, a scalar is
\* unchanged, and the mapping nodes alone are replaced by what they resolve
\* to; the output for a template with no mapping node is the template.
C15_StructuralCopy ==
  /\ pc \in {"returned", "raised"} /\ isObject(sourceObject) /\ isObject(mappingObject)
       /\ ~isFunction(preProcess) /\ OnlyPlainDirectives(mappingObject) =>
         /\ pc = "returned"
         /\ IsCopyOf(output, mappingObject)
         /\ ~HasMappingNode(mappingObject) => output = mappingObject

C15_Witness ==
  /\ pc = "returned"
  /\ mappingObject = Obj(<<"p", "q">>,
                         <<Arr(<<Num(2), MappingNode(Str("a"), Undefined, Undefined,
                                                     Undefined, Undefined)>>),
                           Obj(<<"k">>, <<MappingNode(Str("0"), Undefined, Str("d"),
                                                      Undefined, Undefined)>>)>>)
  /\ output = Obj(<<"p", "q">>, <<Arr(<<Num(2), Num(1)>>), Obj(<<"k">>, <<Str("d")>>)>>)

\* every entry of the node's transform is a conditional transform group
OnlyGroups ==
  /\ Len(TransformCallList) >= 1
  /\ \A i \in 1..Len(TransformCallList) : IsGroup(TransformCallList[i])
\* the condition of the i-th group is met: each of its calls yields true
GroupMet(i) ==
  \A k \in 1..Len(ConcatOne(Prop(TransformCallList[i], "_condition"))) :
    YieldsTrue(ConcatOne(Prop(TransformCallList[i], "_condition"))[k])
IsFirstMet(i) == GroupMet(i) /\ \A h \in 1..(i - 1) : ~GroupMet(h)
\* the chain of the i-th group, and what it makes of the value
GroupChain(i) == ConcatOne(Prop(TransformCallList[i], "_transform"))
GroupChainResult(i, value) ==
  LET composed == Composed(GroupChain(i), value, Len(GroupChain(i)))
  IN IF composed.failed THEN Undefined ELSE composed.v
\* the node's condition is met, its value is there and its transform holds
\* groups only
GroupsAreResolved ==
  /\ pc = "returned" /\ IsNodeTemplate /\ ConditionMet
  /\ OnlyGroups /\ ~isUndefined(AfterPreProcessing)

\* C16: when every entry of the transform is a conditional transform group,
\* the chain that is run is that of the first group, in the order they are
\* written, whose condition is met, also when the condition of a later group
\* is met; when no condition is met no transform function is invoked and the
\* node's value is what it was.
C16_FirstMetGroupWins ==
  GroupsAreResolved =>
    /\ \A i \in 1..Len(TransformCallList) :
         IsFirstMet(i) =>
           /\ ResultX = OrNodeDefault(GroupChainResult(i, AfterPreProcessing))
           /\ Len(Via("Transform")) >= 1
           /\ Via("Transform")[1].fn = NameOf(GroupChain(i)[1])
           /\ Via("Transform")[1].args[1] = AfterPreProcessing
    /\ (\A i \in 1..Len(TransformCallList) : ~GroupMet(i)) =>
         /\ ResultX = OrNodeDefault(AfterPreProcessing)
         /\ Via("Transform") = <<>>

\* C17: a node whose transform sequence holds function calls and conditional
\* transform groups makes the map call raise a configuration error, whatever
\* the source data and the order of the entries; no output tree is returned.
C17_MixedIsConfigurationError ==
  pc \in {"returned", "raised"} /\ isObject(sourceObject) /\ IsNodeTemplate
    /\ ~Truthy(NodeCondition) /\ IsMixed(TransformCallList) =>
      /\ pc = "raised"
      /\ error = MixingError
      /\ output = Undefined

\* the transformEach chain of the node, and what it makes of one element
EachCallList == ConcatOne(NodeTransformEach)
EachResult(element) ==
  LET composed == Composed(EachCallList, element, Len(EachCallList))
  IN IF composed.failed THEN Undefined ELSE composed.v
\* the last n invocations
LastCalls(n) == SubSeq(calls, Len(calls) - n + 1, Len(calls))
HasTransformEach ==
  /\ pc = "returned" /\ IsNodeTemplate /\ ConditionMet /\ Truthy(NodeTransformEach)

\* C18: when the node's value after preprocessing and transform is a
\* sequence, the transformEach chain is run once for each element, on that
\* element, after the transform, and the result is the sequence of the
\* elements' chain results, of the same length and in the same order; when
\* the value is no sequence transformEach does nothing.
C18_TransformEachPerElement ==
  HasTransformEach =>
    LET before == AfterTransformOf(AfterPreProcessing)
    IN IF isArray(before)
       THEN /\ isArray(ResultX)
            /\ Len(Val(ResultX)) = Len(Val(before))
            /\ \A i \in 1..Len(Val(before)) : Val(ResultX)[i] = EachResult(Val(before)[i])
            /\ Len(EachCallList) = 1 /\ PrefixOf(EachCallList[1]) = ""
                 /\ isObject(transformSource) =>
                 /\ Len(calls) >= Len(Val(before))
                 /\ \A i \in 1..Len(Val(before)) :
                      /\ LastCalls(Len(Val(before)))[i].fn = NameOf(EachCallList[1])
                      /\ LastCalls(Len(Val(before)))[i].args = <<Val(before)[i]>>
       ELSE /\ ResultX = OrNodeDefault(before)
            /\ ~Truthy(NodeTransform) => calls = <<>>

\* each element of [1, 2] went through the chain on its own
C18_Witness ==
  /\ HasTransformEach
  /\ AfterTransformOf(AfterPreProcessing) = Arr(<<Num(1), Num(2)>>)
  /\ EachCallList = <<Call("increment", <<>>)>>
  /\ ResultX = Arr(<<Num(2), Num(3)>>)
  /\ Len(calls) = 2 /\ calls[1].args = <<Num(1)>> /\ calls[2].args = <<Num(2)>>

\* the values stored at the node's key-path
NodeStored == StoredAt(sourceObject, SegmentsOf(Val(NodeSource)))

\* C19: null in the source tree is a value that is there: a node whose
\* key-path leads to null resolves to null and not to its default, a wildcard
\* match that is null stays among the matches, the transform chain is run on
\* null, and the default is taken only when nothing is stored at the path.
C19_NullIsPresent ==
  /\ pc = "returned" /\ IsPlainNode /\ IsKeyPath(NodeSource) =>
       /\ NodeStored = <<Null>> => ResultX = Null
       /\ Len(NodeStored) >= 2 => ResultX = Arr(NodeStored)
       /\ NodeDefault = Str("d") => (ResultX = Str("d") <=> NodeStored = <<>>)
  /\ pc = "returned" /\ IsNodeTemplate /\ ~Truthy(NodeCondition)
       /\ ~Truthy(NodeTransformEach)
       /\ ~isFunction(preProcess) /\ isObject(transformSource)
       /\ Len(TransformCallList) >= 1 /\ IsPrefixedName(FirstKey(TransformCallList[1]))
       /\ PrefixOf(TransformCallList[1]) \in {"", "!"}
       /\ NameOf(TransformCallList[1]) \in Range(FunctionNames)
       /\ _resolveSource(NodeSource) = Null =>
         /\ Len(Via("Transform")) >= 1
         /\ Via("Transform")[1].fn = NameOf(TransformCallList[1])
         /\ Via("Transform")[1].args[1] = Null
         /\ ResultX = OrNodeDefault(IF ChainResult.failed THEN Undefined ELSE ChainResult.v)

\* the path leads to null: the chain is run on null, the default is not taken
C19_Witness ==
  /\ pc = "returned" /\ IsNodeTemplate /\ NodeSource = Str("b")
  /\ _resolveSource(NodeSource) = Null
  /\ NodeDefault = Str("d")
  /\ calls = <<[via |-> "Transform", fn |-> "wrap", args |-> <<Null>>]>>
  /\ ResultX = Arr(<<Null>>)

\* the outcome of a call: returned or raised, with what
SameOutcome ==
  /\ (pc' \in {"returned", "returnedAgain"}) = (pc \in {"returned", "returnedAgain"})
  /\ output' = output
  /\ error' = error
  /\ calls' = calls
  /\ warnings' = warnings

PreProcessed(value) == InvokePreProcess(Val(preProcess), value).v
\* one invocation of the preProcess function on a value
PreProcessCall(value) == [via |-> "preProcess", fn |-> Val(preProcess), args |-> <<value>>]
\* the value each key-path of the node resolves to, in the order of the paths
ResolvedEach == resolveEach(Val(NodeSource))
\* a node with no condition in a call with a preProcess function
IsPreProcessed ==
  /\ IsNodeTemplate /\ isFunction(preProcess) /\ ~Truthy(NodeCondition)

\* C21: the preProcess function is invoked once on the whole value a single
\* key-path resolves to, also when a wildcard made it a sequence; for a
\* sequence of key-paths it is invoked once for each path, on the whole value
\* of that path, and the results stand in the order of the paths.
C21_PreProcessWholeValue ==
  /\ pc = "returned" /\ IsPreProcessed /\ isString(NodeSource) =>
       /\ Via("preProcess") = <<PreProcessCall(_resolveKeyPath(Val(NodeSource)))>>
       /\ ~Truthy(NodeTransform) =>
            ResultX = OrNodeDefault(PreProcessed(_resolveKeyPath(Val(NodeSource))))
  /\ pc = "returned" /\ IsPreProcessed /\ isArray(NodeSource)
       /\ (\E i \in 1..Len(ResolvedEach) : ~isUndefined(ResolvedEach[i])) =>
       /\ Via("preProcess") = [i \in 1..Len(ResolvedEach) |-> PreProcessCall(ResolvedEach[i])]
       /\ ~Truthy(NodeTransform) =>
            /\ isArray(ResultX) /\ Len(Val(ResultX)) = Len(ResolvedEach)
            /\ \A i \in 1..Len(ResolvedEach) :
                 ~isUndefined(ResolvedEach[i]) =>
                   Val(ResultX)[i] = PreProcessed(ResolvedEach[i])

\* the matches of a wildcard path went to the preProcess function as one value
C21_Witness ==
  /\ pc = "returned" /\ IsPreProcessed /\ NodeSource = Str("l.*")
  /\ preProcess = Fn("wrap") /\ ~Truthy(NodeTransform)
  /\ calls = <<PreProcessCall(Arr(<<Num(1), Num(2)>>))>>
  /\ ResultX = Arr(<<Arr(<<Num(1), Num(2)>>)>>)

\* some key-paths of the node have a value and some have none
SomeButNotAllAbsent ==
  /\ isArray(NodeSource)
  /\ \E i \in 1..Len(ResolvedEach) : isUndefined(ResolvedEach[i])
  /\ \E i \in 1..Len(ResolvedEach) : ~isUndefined(ResolvedEach[i])

\* C22: with a preProcess function and several key-paths of which some have
\* no value, the preprocessed sequence is as long as the list of paths and
\* the place of each path without a value is still absent, whatever the
\* function returns for an absent input.
C22_AbsentSlotsPreserved ==
  pc = "returned" /\ IsPreProcessed /\ SomeButNotAllAbsent /\ ~Truthy(NodeTransform) =>
    /\ isArray(ResultX)
    /\ Len(Val(ResultX)) = Len(ResolvedEach)
    /\ \A i \in 1..Len(ResolvedEach) :
         isUndefined(ResolvedEach[i]) => isUndefined(Val(ResultX)[i])

\* C23: when the node's value after preprocessing is absent the transform of
\* the node is ignored: no function of the chain is invoked, a function with
\* the prefix @ included, and the node resolves to its default.
C23_AbsentSkipsTransform ==
  pc = "returned" /\ IsNodeTemplate /\ ConditionMet /\ Truthy(NodeTransform)
    /\ isUndefined(AfterPreProcessing) =>
      /\ Via("Transform") = <<>>
      /\ ResultX = NodeDefault

\* null that the preProcess function made absent: the @ call of the chain was
\* not invoked and the node resolved to its default
C23_Witness ==
  /\ pc = "returned" /\ IsNodeTemplate
  /\ NodeSource = Str("b") /\ preProcess = Fn("nullToUndefined")
  /\ FirstKey(TransformCallList[1]) = "@returnOne"
  /\ calls = <<PreProcessCall(Null)>>
  /\ ResultX = Str("d")

\* C24: with a preProcess function and several key-paths none of which has a
\* value, map does not raise: the value of the node is absent, the function
\* is applied to that one absent value and not to the places of the paths,
\* and the node resolves to its default when the function returns absent.
C24_AllAbsentIsOneValue ==
  pc \in Called /\ isObject(sourceObject) /\ IsPreProcessed
    /\ preProcess # Fn("throwError") /\ isArray(NodeSource)
    /\ ~IsMixed(TransformCallList)
    /\ (\A i \in 1..Len(ResolvedEach) : isUndefined(ResolvedEach[i])) =>
      /\ pc \in {"returned", "returnedAgain"}
      /\ Via("preProcess") = <<PreProcessCall(Undefined)>>
      /\ isUndefined(PreProcessed(Undefined)) => ResultX = NodeDefault

\* the one condition call of the i-th group
GroupCondition(i) == ConcatOne(Prop(TransformCallList[i], "_condition"))[1]
\* a node without a condition whose transform holds groups only, each with
\* one condition call, in a call with a function table
GroupConditionsAreChecked ==
  /\ pc = "returned" /\ IsNodeTemplate /\ ~Truthy(NodeCondition)
  /\ OnlyGroups /\ isObject(transformSource)
  /\ \A i \in 1..Len(TransformCallList) :
       Len(ConcatOne(Prop(TransformCallList[i], "_condition"))) = 1

\* C25: the condition of every conditional transform group is invoked with
\* the value the key-paths of the node resolved to, not with the preprocessed
\* value and not with the result of a transform, and the conditions are
\* invoked in the order the groups are written in.
C25_GroupConditionsSeeTheSource ==
  GroupConditionsAreChecked =>
    /\ Len(Via("Condition")) = Len(TransformCallList)
    /\ \A i \in 1..Len(TransformCallList) :
         /\ Via("Condition")[i].fn = FirstKey(GroupCondition(i))
         /\ Via("Condition")[i].args[1] = _resolveSource(NodeSource)
    /\ \A i \in 1..Len(calls) :
         calls[i].via = "Condition" =>
           \A h \in 1..(i - 1) : calls[h].via = "Condition"

\* the conditions of two groups were invoked with null, which the preProcess
\* function made absent
C25_Witness ==
  /\ GroupConditionsAreChecked
  /\ Len(TransformCallList) = 2
  /\ _resolveSource(NodeSource) = Null
  /\ isUndefined(AfterPreProcessing)
  /\ FirstKey(GroupCondition(1)) = "isArray" /\ FirstKey(GroupCondition(2)) = "returnTrue"
  /\ Via("Condition")[1].args = <<Null>> /\ Via("Condition")[2].args = <<Null>>

\* a node with a condition whose calls all name functions of the table
ConditionIsChecked ==
  /\ pc = "returned" /\ IsNodeTemplate /\ Truthy(NodeCondition)
  /\ isObject(transformSource)
  /\ \A i \in 1..Len(ConditionCallList) :
       FirstKey(ConditionCallList[i]) \in Range(FunctionNames)

\* C26: of a condition of n calls every function is invoked once, in the
\* order of the calls, also after a call has returned false or has thrown;
\* the condition is decided after the last call.
C26_ConditionChecksEveryCall ==
  ConditionIsChecked =>
    /\ Len(Via("Condition")) = Len(ConditionCallList)
    /\ \A i \in 1..Len(ConditionCallList) :
         /\ calls[i].via = "Condition"
         /\ calls[i].fn = FirstKey(ConditionCallList[i])
         /\ calls[i].args[1] = _resolveSource(NodeSource)
    /\ ~AllYieldTrue => Len(calls) = Len(ConditionCallList) /\ ResultX = NodeDefault

\* the second call was invoked after the first had thrown
C26_Witness ==
  /\ ConditionIsChecked
  /\ Len(ConditionCallList) = 2
  /\ FirstKey(ConditionCallList[1]) = "fail"
  /\ FirstKey(ConditionCallList[2]) = "returnTrue"
  /\ Len(calls) = 2 /\ calls[1].fn = "fail" /\ calls[2].fn = "returnTrue"
  /\ ResultX = NodeDefault

\* the k-th call of the node's transform chain is the first that throws
FirstFailureAt(k) ==
  /\ Composed(TransformCallList, AfterPreProcessing, k).failed
  /\ ~Composed(TransformCallList, AfterPreProcessing, k - 1).failed
\* the transform chain of a node without transformEach is run with functions
\* of the table
ChainOfTableIsRun ==
  /\ ChainIsRun /\ ~Truthy(NodeTransformEach) /\ isObject(transformSource)
  /\ \A i \in 1..Len(TransformCallList) :
       FirstKey(TransformCallList[i]) \in Range(FunctionNames)

\* C27: when the k-th call of a transform chain throws the chain ends there:
\* the calls after it are not invoked, and one failure is reported for the
\* chain.
C27_ChainStopsAtFailure ==
  ChainOfTableIsRun =>
    \A k \in 1..Len(TransformCallList) :
      FirstFailureAt(k) =>
        /\ Len(Via("Transform")) = k
        /\ \A i \in 1..k : Via("Transform")[i].fn = FirstKey(TransformCallList[i])
        /\ warnings = <<Warning("Transform")>>
        /\ ResultX = NodeDefault

\* the first of two calls threw: the second was not invoked
C27_Witness ==
  /\ ChainOfTableIsRun
  /\ Len(TransformCallList) = 2 /\ FirstFailureAt(1)
  /\ FirstKey(TransformCallList[2]) = "wrap"
  /\ Len(calls) = 1 /\ calls[1].fn = FirstKey(TransformCallList[1])
  /\ Len(warnings) = 1

\* the node's value before transformEach, and the elements on which the
\* transformEach chain fails
BeforeEach == AfterTransformOf(AfterPreProcessing)
EachFails(element) == Composed(EachCallList, element, Len(EachCallList)).failed
FailingElements == {i \in 1..Len(Val(BeforeEach)) : EachFails(Val(BeforeEach)[i])}
\* transformEach is run on a sequence, after a transform that did not fail
EachIsRun ==
  /\ HasTransformEach /\ isObject(transformSource) /\ isArray(BeforeEach)
  /\ Truthy(NodeTransform) =>
       ~Composed(TransformCallList, AfterPreProcessing, Len(TransformCallList)).failed

\* C28: when the transformEach chain fails on an element, the place of that
\* element becomes absent, the chains of the other elements are run and keep
\* their results, the sequence keeps its length, and the node does not
\* resolve to its default, the sequence being there.
C28_EachFailureIsIsolated ==
  EachIsRun =>
    /\ isArray(ResultX)
    /\ Len(Val(ResultX)) = Len(Val(BeforeEach))
    /\ \A i \in 1..Len(Val(BeforeEach)) :
         IF i \in FailingElements
         THEN isUndefined(Val(ResultX)[i])
         ELSE Val(ResultX)[i] = EachResult(Val(BeforeEach)[i])
    /\ Len(warnings) = Cardinality(FailingElements)
    /\ FailingElements # {} /\ NodeDefault = Str("d") => ResultX # Str("d")

\* the chain failed on the first element and ran on the second
C28_Witness ==
  /\ EachIsRun
  /\ BeforeEach = Arr(<<Undefined, Num(1)>>)
  /\ EachCallList = <<Call("increment", <<>>)>>
  /\ NodeDefault = Str("d")
  /\ ResultX = Arr(<<Undefined, Num(2)>>)
  /\ Len(warnings) = 1

\* the preProcess function of the call throws on the value it is given first
PreProcessThrows ==
  /\ isObject(sourceObject) /\ IsPreProcessed
  /\ preProcess = Fn("throwError")
  /\ \/ isString(NodeSource)
     \/ isArray(NodeSource) /\ \E i \in 1..Len(ResolvedEach) : ~isUndefined(ResolvedEach[i])

\* C29: an exception of the preProcess function is not caught: the map call
\* raises, no output tree is returned, the default of the node is not used
\* and nothing is invoked after the function that threw.
C29_PreProcessFailureRaises ==
  pc \in Called /\ PreProcessThrows =>
    /\ pc \in {"raised", "raisedAgain"}
    /\ error = "preProcess failed"
    /\ output = Undefined
    /\ Len(calls) = 1 /\ calls[1].via = "preProcess"
    /\ warnings = <<>>

\* the call raised for a node that has a default
C29_Witness ==
  /\ pc = "raised" /\ PreProcessThrows
  /\ NodeSource = Str("a") /\ NodeDefault = Str("d")
  /\ error = "preProcess failed" /\ output = Undefined
  /\ calls = <<PreProcessCall(Num(1))>>

\* the mapping node that a node holds in its condition, transform or default
HoldsInCondition(node) == Truthy(Prop(node, "_condition"))
HoldsInTransform(node) == Truthy(Prop(node, "_transform"))
InnerNode(node) ==
  IF HoldsInCondition(node) THEN DeclaredOf(Prop(node, "_condition"))[1]
  ELSE IF HoldsInTransform(node) THEN DeclaredOf(Prop(node, "_transform"))[1]
  ELSE Prop(node, "_default")
\* what such a node is to resolve to when each mapping node is evaluated once
\* and the values of the source tree are taken as they are: testCondition
\* returns its argument, which is not true as a condition and is the new value
\* as a transform
RECURSIVE ResolvedOnce(_)
ResolvedOnce(node) ==
  IF node \in LeafNodes THEN PlainResult(node)
  ELSE IF HoldsInCondition(node) THEN Prop(node, "_default")
  ELSE ResolvedOnce(InnerNode(node))
\* the invocations of testCondition, from the innermost node outwards
RECURSIVE InvokedOnce(_)
InvokedOnce(node) ==
  IF node \in LeafNodes THEN <<>>
  ELSE InvokedOnce(InnerNode(node))
         \o IF HoldsInCondition(node) \/ HoldsInTransform(node)
            THEN <<[via |-> IF HoldsInCondition(node) THEN "Condition" ELSE "Transform",
                    fn |-> "testCondition",
                    args |-> <<Expected(sourceObject, <<"a">>), ResolvedOnce(InnerNode(node))>>]>>
            ELSE <<>>
\* the number of nodes that come to preprocessing: all but those whose
\* condition is not met
RECURSIVE PreProcessedOnce(_)
PreProcessedOnce(node) ==
  IF node \in LeafNodes THEN 1
  ELSE PreProcessedOnce(InnerNode(node)) + IF HoldsInCondition(node) THEN 0 ELSE 1
\* the source tree holds objects with a source key
SourceLooksLikeTemplate ==
  /\ pc \in Called /\ sourceObject = TemplateLikeSource
  /\ isIndexable(mappingObject) /\ isMappingNode(TheNode)

\* C30: a value of the source tree is not taken for template: when a mapping
\* node, alone or in the condition, transform or default of another, resolves
\* to an object of the source tree that has a source key, that object is in
\* the output or is the argument of the function as it is, and is not
\* evaluated as a mapping node; each mapping node of the template is
\* evaluated once in a map call.
C30_SourceValuesAreNotTemplate ==
  SourceLooksLikeTemplate =>
    /\ pc \in {"returned", "returnedAgain"}
    /\ ResultX = ResolvedOnce(TheNode)
    /\ SelectSeq(calls, LAMBDA entry : entry.via # "preProcess") = InvokedOnce(TheNode)
    /\ isFunction(preProcess) => Len(Via("preProcess")) = PreProcessedOnce(TheNode)

====
